---- MODULE Spec2Model ----
(***************************************************************************)
(* Resolvia: the automated ticket triage pipeline (backend/services/       *)
(* aiService.js) and the stores it works on (AgentSuggestion, AuditLog,    *)
(* Config, Article).                                                       *)
(*                                                                         *)
(* Representation.  A JavaScript string is a sequence of one-character     *)
(* strings.  A number in [0,1] (a confidence, a threshold) is an integer   *)
(* count of 1/10000: 0.8 is 8000, 0.5 is 5000; every value the code        *)
(* computes from the inputs used here is exact in that unit.  NaN is the   *)
(* value NaN below.                                                        *)
(***************************************************************************)
EXTENDS Integers, Sequences, FiniteSets, TLC

VARIABLES
    env,            \* process.env.STUB_MODE === 'true', and whether this.model is set
    articles,       \* the Article collection
    suggestions,    \* the AgentSuggestion collection
    auditLog,       \* the AuditLog collection
    configs,        \* the Config collection (no document, or the 'config' singleton)
    runs,           \* the processTicket / getStubResult invocations in progress
    nextId,         \* source of fresh ObjectIds
    nextTrace,      \* source of fresh trace ids (uuidv4)
    started,        \* number of invocations started so far
    updates,        \* number of configuration updates made so far
    classifyCall,   \* a direct call of stubClassifyCategory: its argument and result
    confidenceCall, \* a direct call of calculateOverallConfidence: arguments and result
    configRequest,  \* the last request served on the configuration, and its answer
    agentRequest,   \* an agent's request on a suggestion or a ticket, in progress
    draftCall,      \* a direct call of stubGenerateDraftReply: arguments and result
    tickets,        \* the Ticket collection
    requests        \* the POST /tickets requests: handler position, response, triage task

vars == <<env, articles, suggestions, auditLog, configs, runs, nextId, nextTrace,
          started, updates, classifyCall, confidenceCall, configRequest, agentRequest,
          draftCall, tickets, requests>>

(***************************************************************************)
(* Bounds of the model.                                                    *)
(***************************************************************************)
MaxStarts == 2

MaxEngineStarts == 1

MaxConfigUpdates == 1
MaxRequests == 2
MaxRecalls == 2

\* Requests of agents that the model follows, one after the other.
MaxAgentRequests == 2

\* Requests on the configuration that SpecConfig follows.
MaxConfigRequests == 3

(***************************************************************************)
(* Strings.                                                                *)
(***************************************************************************)
UpperCase == <<"A","B","C","D","E","F","G","H","I","J","K","L","M",
               "N","O","P","Q","R","S","T","U","V","W","X","Y","Z">>

LowerCase == <<"a","b","c","d","e","f","g","h","i","j","k","l","m",
               "n","o","p","q","r","s","t","u","v","w","x","y","z">>

\* String.prototype.toLowerCase on one character.
LowerChar(c) ==
    IF \E i \in 1..Len(UpperCase) : UpperCase[i] = c
    THEN LowerCase[CHOOSE i \in 1..Len(UpperCase) : UpperCase[i] = c]
    ELSE c

\* String.prototype.toLowerCase
ToLowerCase(s) == [i \in 1..Len(s) |-> LowerChar(s[i])]

\* String.prototype.includes: word occurs in text as a substring.
Includes(text, word) ==
    \E i \in 1..(Len(text) - Len(word) + 1) : SubSeq(text, i, i + Len(word) - 1) = word

Whitespace == {" ", "\n", "\t"}

RECURSIVE TrimStart(_)
TrimStart(s) == IF s # <<>> /\ Head(s) \in Whitespace THEN TrimStart(Tail(s)) ELSE s

RECURSIVE TrimEnd(_)
TrimEnd(s) ==
    IF s # <<>> /\ s[Len(s)] \in Whitespace THEN TrimEnd(SubSeq(s, 1, Len(s) - 1)) ELSE s

\* String.prototype.trim
Trim(s) == TrimEnd(TrimStart(s))

DigitChars == <<"0","1","2","3","4","5","6","7","8","9">>

\* The decimal text of a non-negative integer, as a template literal prints it.
RECURSIVE NumberToString(_)
NumberToString(n) ==
    IF n < 10 THEN <<DigitChars[n + 1]>>
    ELSE NumberToString(n \div 10) \o <<DigitChars[(n % 10) + 1]>>

\* String.prototype.substring(0, n)
Substring0(s, n) == SubSeq(s, 1, IF n < Len(s) THEN n ELSE Len(s))

(* The keyword lists of stubClassifyCategory, in source order. *)
Keywords_billing ==
    << <<"b","i","l","l">>,
       <<"i","n","v","o","i","c","e">>,
       <<"p","a","y","m","e","n","t">>,
       <<"c","h","a","r","g","e">>,
       <<"r","e","f","u","n","d">>,
       <<"s","u","b","s","c","r","i","p","t","i","o","n">>,
       <<"p","r","i","c","e">>,
       <<"c","o","s","t">> >>

Keywords_tech ==
    << <<"b","u","g">>,
       <<"e","r","r","o","r">>,
       <<"c","r","a","s","h">>,
       <<"n","o","t"," ","w","o","r","k","i","n","g">>,
       <<"b","r","o","k","e","n">>,
       <<"i","s","s","u","e">>,
       <<"p","r","o","b","l","e","m">>,
       <<"t","e","c","h","n","i","c","a","l">> >>

Keywords_shipping ==
    << <<"d","e","l","i","v","e","r","y">>,
       <<"s","h","i","p","p","i","n","g">>,
       <<"p","a","c","k","a","g","e">>,
       <<"t","r","a","c","k","i","n","g">>,
       <<"s","h","i","p","m","e","n","t">>,
       <<"o","r","d","e","r">>,
       <<"r","e","c","e","i","v","e","d">> >>

W_Invoice ==
    <<"I","n","v","o","i","c","e">>

W_Billing ==
    <<"B","i","l","l","i","n","g">>

W_Border ==
    <<"B","o","r","d","e","r">>

W_Crash ==
    <<"C","r","a","s","h">>

W_Hello ==
    <<"H","e","l","l","o"," ","t","h","e","r","e">>

W_Shipment ==
    <<"S","h","i","p","m","e","n","t">>

W_General ==
    <<"G","e","n","e","r","a","l"," ","i","n","q","u","i","r","y">>

D_refund ==
    <<"r","e","f","u","n","d">>

D_error ==
    <<"e","r","r","o","r">>

D_not ==
    <<"n","o","t">>

D_working ==
    <<"w","o","r","k","i","n","g">>

D_package ==
    <<"p","a","c","k","a","g","e">>

D_question ==
    <<"q","u","e","s","t","i","o","n">>

D_PAYMENT ==
    <<"P","A","Y","M","E","N","T">>

D_recharged ==
    <<"r","e","c","h","a","r","g","e","d">>

D_tracking ==
    <<"t","r","a","c","k","i","n","g">>
T1_title ==
    <<"A","p","p"," ","c","r","a","s","h">>

T1_description ==
    <<"E","r","r","o","r"," ","o","n"," ","e","v","e","r","y"," ","l","o","g","i","n">>

T2_title ==
    <<"I","n","v","o","i","c","e">>

T2_description ==
    <<"r","e","f","u","n","d"," ","m","y"," ","p","a","y","m","e","n","t">>

T3_title ==
    <<"H","e","l","l","o"," ","t","h","e","r","e">>

T3_description ==
    <<"a"," ","g","e","n","e","r","a","l"," ","q","u","e","s","t","i","o","n">>

T4_title ==
    <<"O","r","d","e","r">>

\* A description of 99 characters: title and description together exceed 100.
T4_description ==
    <<"m","y"," ","o","r","d","e","r"," ","h","a","s"," ","n","o","t"," ","a","r","r",
      "i","v","e","d"," ","a","f","t","e","r"," ","t","h","r","e","e"," ","w","e","e",
      "k","s"," ","a","n","d"," ","n","o","b","o","d","y"," ","h","a","s"," ","a","n",
      "s","w","e","r","e","d"," ","t","h","e"," ","t","w","o"," ","m","e","s","s","a",
      "g","e","s"," ","t","h","a","t"," ","I"," ","s","e","n","t"," ","y","o","u">>

A_title1 ==
    <<"L","o","g","i","n"," ","f","i","x","e","s">>

A_title2 ==
    <<"C","r","a","s","h"," ","F","A","Q">>

A_title3 ==
    <<"R","e","s","e","t"," ","g","u","i","d","e">>

A_title4 ==
    <<"P","a","y","m","e","n","t","s">>

A_title5 ==
    <<"A","p","p"," ","s","e","t","u","p">>

A_title6 ==
    <<"K","n","o","w","n"," ","b","u","g","s">>

A_title7 ==
    <<"D","r","a","f","t"," ","n","o","t","e","s">>

Str_Thanks ==
    <<"T","h","a","n","k"," ","y","o","u"," ","f","o","r"," ","c","o","n","t","a","c","t","i",
    "n","g"," ","u","s"," ","r","e","g","a","r","d","i","n","g"," ","\"">>

Str_ThanksEnd ==
    <<"\"",".">>

Str_Found ==
    <<"\n","\n","B","a","s","e","d"," ","o","n"," ","y","o","u","r"," ","q","u","e","r","y",",",
    " ","I"," ","f","o","u","n","d"," ","s","o","m","e"," ","r","e","l","e","v","a","n","t"," ",
    "i","n","f","o","r","m","a","t","i","o","n"," ","t","h","a","t"," ","m","i","g","h","t"," ",
    "h","e","l","p",":","\n","\n">>

Str_DotSpace ==
    <<"."," ">>

Str_Newline ==
    <<"\n">>

Str_Review ==
    <<"\n","P","l","e","a","s","e"," ","r","e","v","i","e","w"," ","t","h","e","s","e"," ","r",
    "e","s","o","u","r","c","e","s","."," ","I","f"," ","t","h","e","y"," ","d","o","n","'","t",
    " ","f","u","l","l","y"," ","a","d","d","r","e","s","s"," ","y","o","u","r"," ","c","o","n",
    "c","e","r","n",","," ","o","u","r"," ","t","e","a","m"," ","w","i","l","l"," ","b","e"," ",
    "h","a","p","p","y"," ","t","o"," ","a","s","s","i","s","t"," ","y","o","u"," ","f","u","r",
    "t","h","e","r",".">>

Str_Understand ==
    <<"\n","\n","I"," ","u","n","d","e","r","s","t","a","n","d"," ","y","o","u"," ","n","e","e",
    "d"," ","h","e","l","p"," ","w","i","t","h"," ","t","h","i","s"," ">>

Str_WillReview ==
    <<" ","i","s","s","u","e","."," ","O","u","r"," ","t","e","a","m"," ","w","i","l","l"," ",
    "r","e","v","i","e","w"," ","y","o","u","r"," ","r","e","q","u","e","s","t"," ","a","n","d",
    " ","g","e","t"," ","b","a","c","k"," ","t","o"," ","y","o","u"," ","s","h","o","r","t","l",
    "y",".">>

Str_Regards ==
    <<"\n","\n","B","e","s","t"," ","r","e","g","a","r","d","s",",","\n","R","e","s","o","l",
    "v","i","a"," ","S","u","p","p","o","r","t"," ","T","e","a","m">>

Str_billing ==
    <<"b","i","l","l","i","n","g">>

Str_tech ==
    <<"t","e","c","h">>

Str_shipping ==
    <<"s","h","i","p","p","i","n","g">>

Str_other ==
    <<"o","t","h","e","r">>

Str_account ==
    <<"a","c","c","o","u","n","t">>

Str_undefined ==
    <<"u","n","d","e","f","i","n","e","d">>

Str_EngineReply ==
    <<" "," ","W","e"," ","a","r","e"," ","l","o","o","k","i","n","g"," ","i","n","t","o"," ",
    "i","t",".","\n">>

Str_Blank ==
    <<" "," ","\n">>

(***************************************************************************)
(* Category classifier, heuristic mode.                                    *)
(***************************************************************************)
Categories == {"billing", "tech", "shipping", "other"}

\* const keywords = {billing: [...], tech: [...], shipping: [...]}, in Object.entries order
Keywords ==
    << [category |-> "billing",  words |-> Keywords_billing],
       [category |-> "tech",     words |-> Keywords_tech],
       [category |-> "shipping", words |-> Keywords_shipping] >>

\* `${ticket.title} ${ticket.description}`
TicketQuery(ticket) == ticket.title \o <<" ">> \o ticket.description

\* A score that tells only whether some keyword occurs, not how many do.
KeywordScorePresence(text, words) ==
    IF \E i \in 1..Len(words) : Includes(text, words[i]) THEN 1 ELSE 0

\* words.reduce((count, word) => count + (text.includes(word) ? 1 : 0), 0)
KeywordScore(text, words) ==
    Cardinality({i \in 1..Len(words) : Includes(text, words[i])})

\* The loop with `score >= bestScore`: a later category wins a tie.
RECURSIVE ClassifyLoopLastWins(_, _, _, _)
ClassifyLoopLastWins(text, i, bestCategory, bestScore) ==
    IF i > Len(Keywords) THEN [category |-> bestCategory, score |-> bestScore]
    ELSE LET score == KeywordScore(text, Keywords[i].words)
         IN  IF score >= bestScore
             THEN ClassifyLoopLastWins(text, i + 1, Keywords[i].category, score)
             ELSE ClassifyLoopLastWins(text, i + 1, bestCategory, bestScore)

\* The for-loop over Object.entries(keywords) from entry i on.
RECURSIVE ClassifyLoop(_, _, _, _)
ClassifyLoop(text, i, bestCategory, bestScore) ==
    IF i > Len(Keywords) THEN [category |-> bestCategory, score |-> bestScore]
    ELSE LET score == KeywordScore(text, Keywords[i].words)
         IN  IF score > bestScore
             THEN ClassifyLoop(text, i + 1, Keywords[i].category, score)
             ELSE ClassifyLoop(text, i + 1, bestCategory, bestScore)

Str_KeywordsFound ==
    <<"K","e","y","w","o","r","d","s"," ","f","o","u","n","d",":"," ">>

Str_NoKeywords ==
    <<"N","o"," ","s","p","e","c","i","f","i","c"," ","k","e","y","w","o","r","d","s"," ",
      "f","o","u","n","d">>

\* A classifier that repeats the category of a stored suggestion when there is one.
stubClassifyCategoryFromHistory(ticket) ==
    LET text == ToLowerCase(TicketQuery(ticket))
        best == ClassifyLoop(text, 1, "other", 0)
    IN  [category   |-> IF suggestions # {}
                        THEN (CHOOSE s \in suggestions : TRUE).predictedCategory
                        ELSE best.category,
         confidence |-> IF best.score > 0 THEN 8000 ELSE 5000,
         reasoning  |-> IF best.score > 0
                        THEN Str_KeywordsFound \o NumberToString(best.score)
                        ELSE Str_NoKeywords]

stubClassifyCategory(ticket) ==
    LET text == ToLowerCase(TicketQuery(ticket))
        best == ClassifyLoop(text, 1, "other", 0)
    IN  [category   |-> best.category,
         confidence |-> IF best.score > 0 THEN 8000 ELSE 5000,
         reasoning  |-> IF best.score > 0
                        THEN Str_KeywordsFound \o NumberToString(best.score)
                        ELSE Str_NoKeywords]

(***************************************************************************)
(* Numbers.                                                                *)
(***************************************************************************)
\* JavaScript NaN (what Math.max(undefined, 0) yields), kept apart from every number.
NaN == -1000000

\* Math.max
MathMax(a, b) == IF a = NaN \/ b = NaN THEN NaN ELSE IF a >= b THEN a ELSE b

\* Math.min
MathMin(a, b) == IF a = NaN \/ b = NaN THEN NaN ELSE IF a <= b THEN a ELSE b

(***************************************************************************)
(* Errors: the constructor name of the rejection and the place it is about.*)
(***************************************************************************)
NoError == [name |-> "", at |-> ""]

Err(name, at) == [name |-> name, at |-> at]

(***************************************************************************)
(* Tickets handed to the pipeline (the in-memory ticket the caller holds). *)
(***************************************************************************)
Tickets ==
    << [_id |-> 1, title |-> T1_title, description |-> T1_description],
       [_id |-> 2, title |-> T2_title, description |-> T2_description],
       [_id |-> 3, title |-> T3_title, description |-> T3_description],
       [_id |-> 4, title |-> T4_title, description |-> T4_description] >>

\* The tickets of the stored collection; the long ticket 4 is handed to the service
\* directly (SpecRetrieve).
TicketIds == {t \in 1..Len(Tickets) : Len(TicketQuery(Tickets[t])) <= 100}

(***************************************************************************)
(* Article store.  textScore[t] is MongoDB's $text score of the article    *)
(* for the query of ticket t; 0 means the article does not match it.       *)
(***************************************************************************)
Article(id, title, category, status, s1, s2, s3) ==
    [_id |-> id, title |-> title, category |-> category, status |-> status,
     textScore |-> <<s1, s2, s3>>]

InitialArticles ==
    { Article(101, A_title1, "tech", "published", 60, 20, 0),
      Article(102, A_title2, "tech", "published", 50, 0, 0),
      Article(103, A_title3, "tech", "published", 40, 30, 0),
      Article(104, A_title4, "other", "published", 0, 40, 0),
      Article(105, A_title5, "tech", "published", 30, 10, 0),
      Article(106, A_title6, "tech", "published", 20, 0, 0),
      Article(107, A_title1, "tech", "published", 10, 0, 0),
      Article(108, A_title7, "tech", "draft", 90, 90, 90),
      Article(109, A_title7, "billing", "draft", 0, 80, 0) }

\* The $text score of an article for a query string.
TextScore(a, keywords) ==
    IF \E t \in TicketIds : TicketQuery(Tickets[t]) = keywords
    THEN a.textScore[CHOOSE t \in TicketIds : TicketQuery(Tickets[t]) = keywords]
    ELSE 0

\* .sort({score: {$meta: 'textScore'}}) (or {createdAt: -1} without keywords)
RECURSIVE SortArticles(_, _)
SortArticles(found, keywords) ==
    IF found = {} THEN <<>>
    ELSE LET key(a) == IF keywords # <<>> THEN TextScore(a, keywords) ELSE a._id
             first == CHOOSE a \in found :
                          \A b \in found :
                              \/ key(a) > key(b)
                              \/ key(a) = key(b) /\ a._id <= b._id
         IN  <<first>> \o SortArticles(found \ {first}, keywords)

\* The fields .select(...) keeps of a found article.
Selected(a) == [_id |-> a._id, title |-> a.title, category |-> a.category]

\* Article.searchByKeywords(keywords, {status, category, limit}); category "" is "not given"
searchByKeywords(coll, keywords, options) ==
    LET found == {a \in coll :
                     /\ a.status = options.status
                     /\ options.category # "" => a.category = options.category
                     /\ (keywords # <<>> /\ Trim(keywords) # <<>>)
                            => TextScore(a, keywords) > 0}
        sorted == SortArticles(found, keywords)
        n == IF Len(sorted) < options.limit THEN Len(sorted) ELSE options.limit
    IN  [i \in 1..n |-> Selected(sorted[i])]

(***************************************************************************)
(* Audit log.                                                              *)
(***************************************************************************)
\* auditLogSchema.action enum
AuditActions ==
    { "ticket_created", "ticket_updated", "status_changed", "assigned", "unassigned",
      "assignment_requested", "assignment_approved", "assignment_rejected", "reply_added",
      "category_predicted", "articles_retrieved", "reply_drafted", "auto_closed",
      "agent_reviewed", "escalated", "sla_set", "sla_breached" }

\* auditLogSchema.actor enum
AuditActors == {"system", "user", "agent", "admin"}

\* Schema validation of a new AuditLog document: the error, or NoError.
AuditValidate(data) ==
    IF data.actor \notin AuditActors THEN Err("ValidationError", "AuditLog.actor")
    ELSE IF data.action \notin AuditActions THEN Err("ValidationError", "AuditLog.action")
    ELSE NoError

\* The events of one trace in the order written: getTraceTimeline(traceId).
RECURSIVE TraceTimelineFrom(_, _, _)
TraceTimelineFrom(log, traceId, n) ==
    IF \E e \in log : e.traceId = traceId /\ e.timestamp = n
    THEN <<CHOOSE e \in log : e.traceId = traceId /\ e.timestamp = n>>
             \o TraceTimelineFrom(log, traceId, n + 1)
    ELSE <<>>

getTraceTimeline(log, traceId) == TraceTimelineFrom(log, traceId, 1)

\* AuditLog.logAction(data): the outcome of this.create({...}) on collection log.
\* timestamp (new Date()) is kept as the event's position among the events of its
\* trace; the description text is not modelled, meta carries its content.
logAction(log, data) ==
    IF AuditValidate(data) # NoError
    THEN [error |-> AuditValidate(data), log |-> log]
    ELSE [error |-> NoError,
          log |-> log \cup
                    {[ticketId |-> data.ticketId, traceId |-> data.traceId,
                      actor |-> data.actor, action |-> data.action, meta |-> data.meta,
                      timestamp |->
                          Cardinality({e \in log : e.traceId = data.traceId}) + 1]}]

AuditEvent(ticket, traceId, action, meta) ==
    [ticketId |-> ticket._id, traceId |-> traceId, actor |-> "system",
     action |-> action, meta |-> meta]

(***************************************************************************)
(* Suggestion store.                                                       *)
(***************************************************************************)
\* agentFeedback of a suggestion nobody reviewed; dates are the number of the request
\* that set them (0: not set), users are ObjectIds (0: not set).
NoFeedback ==
    [accepted |-> FALSE, editedReply |-> <<>>, feedbackNotes |-> <<>>, rating |-> 0,
     submittedAt |-> 0, submittedBy |-> 0]

NoSuggestion ==
    [_id |-> 0, ticketId |-> 0, traceId |-> 0, predictedCategory |-> "",
     categoryConfidence |-> 0, articleIds |-> <<>>, draftReply |-> <<>>,
     confidence |-> 0, autoClosed |-> FALSE,
     modelInfo |-> [model |-> "", tokensUsed |-> 0],
     agentFeedback |-> NoFeedback, used |-> FALSE, usedAt |-> 0]

\* agentSuggestionSchema.draftReply: maxlength 5000
DraftReplyMaxLength == 5000

\* The validation without the maxlength of draftReply.
SuggestionValidateNoMaxLength(doc) ==
    IF doc.predictedCategory \notin Categories
    THEN Err("ValidationError", "AgentSuggestion.predictedCategory")
    ELSE IF doc.categoryConfidence = NaN \/ doc.categoryConfidence < 0
                \/ doc.categoryConfidence > 10000
    THEN Err("ValidationError", "AgentSuggestion.categoryConfidence")
    ELSE IF doc.draftReply = <<>>
    THEN Err("ValidationError", "AgentSuggestion.draftReply")
    ELSE IF doc.confidence = NaN \/ doc.confidence < 0 \/ doc.confidence > 10000
    THEN Err("ValidationError", "AgentSuggestion.confidence")
    ELSE NoError

\* Schema validation of a new AgentSuggestion document: the error, or NoError.
SuggestionValidate(doc) ==
    IF doc.predictedCategory \notin Categories
    THEN Err("ValidationError", "AgentSuggestion.predictedCategory")
    ELSE IF doc.categoryConfidence = NaN \/ doc.categoryConfidence < 0
                \/ doc.categoryConfidence > 10000
    THEN Err("ValidationError", "AgentSuggestion.categoryConfidence")
    ELSE IF doc.draftReply = <<>> \/ Len(doc.draftReply) > DraftReplyMaxLength
    THEN Err("ValidationError", "AgentSuggestion.draftReply")
    ELSE IF doc.confidence = NaN \/ doc.confidence < 0 \/ doc.confidence > 10000
    THEN Err("ValidationError", "AgentSuggestion.confidence")
    ELSE NoError

\* create on a collection whose ticketId index is not unique.
SuggestionCreateNoUniqueIndex(coll, fields, id) ==
    LET doc == [NoSuggestion EXCEPT
                   !._id = id, !.ticketId = fields.ticketId, !.traceId = fields.traceId,
                   !.predictedCategory = fields.predictedCategory,
                   !.categoryConfidence = fields.categoryConfidence,
                   !.articleIds = fields.articleIds, !.draftReply = fields.draftReply,
                   !.confidence = fields.confidence, !.modelInfo = fields.modelInfo]
    IN  IF SuggestionValidate(doc) # NoError
        THEN [error |-> SuggestionValidate(doc), doc |-> NoSuggestion, coll |-> coll]
        ELSE [error |-> NoError, doc |-> doc, coll |-> coll \cup {doc}]

\* AgentSuggestion.create(fields): validation, then one insert under the unique
\* index on ticketId.  id is the ObjectId the new document gets.
SuggestionCreate(coll, fields, id) ==
    LET doc == [NoSuggestion EXCEPT
                   !._id = id, !.ticketId = fields.ticketId, !.traceId = fields.traceId,
                   !.predictedCategory = fields.predictedCategory,
                   !.categoryConfidence = fields.categoryConfidence,
                   !.articleIds = fields.articleIds, !.draftReply = fields.draftReply,
                   !.confidence = fields.confidence, !.modelInfo = fields.modelInfo]
    IN  IF SuggestionValidate(doc) # NoError
        THEN [error |-> SuggestionValidate(doc), doc |-> NoSuggestion, coll |-> coll]
        ELSE IF \E s \in coll : s.ticketId = doc.ticketId
        THEN [error |-> Err("MongoServerError E11000", "AgentSuggestion.ticketId"),
              doc |-> NoSuggestion, coll |-> coll]
        ELSE [error |-> NoError, doc |-> doc, coll |-> coll \cup {doc}]

(***************************************************************************)
(* Config store.                                                           *)
(***************************************************************************)
\* The defaults of configSchema: what Config.create({}) inserts.
DefaultConfig ==
    [_id |-> "config", autoCloseEnabled |-> FALSE, confidenceThreshold |-> 8000,
     slaHours |-> 24, version |-> 1]

NoConfig ==
    [_id |-> "", autoCloseEnabled |-> FALSE, confidenceThreshold |-> 0,
     slaHours |-> 0, version |-> 0]

(***************************************************************************)
(* Reply drafter, heuristic mode.                                          *)
(***************************************************************************)
\* The text `${categoryResult.category}` of a category value.
CategoryText(c) ==
    CASE c = "billing"  -> Str_billing
      [] c = "tech"     -> Str_tech
      [] c = "shipping" -> Str_shipping
      [] c = "other"    -> Str_other
      [] c = "account"  -> Str_account
      [] OTHER          -> Str_undefined

\* The list numbered by index, from 0, instead of index + 1.
RECURSIVE ArticleLinesFromZero(_, _)
ArticleLinesFromZero(arts, i) ==
    IF i > Len(arts) THEN <<>>
    ELSE NumberToString(i - 1) \o Str_DotSpace \o arts[i].title \o Str_Newline
             \o ArticleLinesFromZero(arts, i + 1)

\* articles.forEach((article, index) => reply += `${index + 1}. ${article.title}\n`), from i on
RECURSIVE ArticleLines(_, _)
ArticleLines(arts, i) ==
    IF i > Len(arts) THEN <<>>
    ELSE NumberToString(i) \o Str_DotSpace \o arts[i].title \o Str_Newline
             \o ArticleLines(arts, i + 1)

stubGenerateDraftReply(ticket, arts, categoryResult) ==
    [reply |->
        Str_Thanks \o ticket.title \o Str_ThanksEnd
        \o (IF Len(arts) > 0
            THEN Str_Found \o ArticleLines(arts, 1) \o Str_Review
            ELSE Str_Understand \o CategoryText(categoryResult.category) \o Str_WillReview)
        \o Str_Regards,
     tokensUsed |-> 0]

(***************************************************************************)
(* Confidence aggregator.  In units of 1/10000:                            *)
(*   categoryResult.confidence * 0.4      = 4 * c / 10                     *)
(*   Math.min(n / 3, 1) * 0.3             = min(n, 3) * 10000 * 3 / (3*10) *)
(*   Math.min(len / 500, 1) * 0.3         = min(len, 500) * 10000 * 3      *)
(*                                             / (500 * 10)                *)
(* (exact here; the code's doubles differ from it by rounding only).       *)
(***************************************************************************)
\* The weighted sum without any Math.min.
calculateOverallConfidenceUnclamped(categoryResult, draftResult, arts) ==
    IF categoryResult.confidence = NaN THEN NaN
    ELSE (categoryResult.confidence * 4) \div 10
             + (Len(arts) * 10000 * 3) \div (3 * 10)
             + (Len(draftResult.reply) * 10000 * 3) \div (500 * 10)

\* The article term reaching its full weight at 5 articles instead of 3.
calculateOverallConfidenceSaturatesAt5(categoryResult, draftResult, arts) ==
    IF categoryResult.confidence = NaN THEN NaN
    ELSE MathMin((categoryResult.confidence * 4) \div 10
                     + (MathMin(Len(arts), 5) * 10000 * 3) \div (5 * 10)
                     + (MathMin(Len(draftResult.reply), 500) * 10000 * 3) \div (500 * 10),
                 10000)

calculateOverallConfidence(categoryResult, draftResult, arts) ==
    IF categoryResult.confidence = NaN THEN NaN
    ELSE LET categoryScore == (categoryResult.confidence * 4) \div 10
             articleScore  == (MathMin(Len(arts), 3) * 10000 * 3) \div (3 * 10)
             replyScore    == (MathMin(Len(draftResult.reply), 500) * 10000 * 3)
                                  \div (500 * 10)
         IN  MathMin(categoryScore + articleScore + replyScore, 10000)

(***************************************************************************)
(* External engine (Gemini).  A response to generateContent is the model's *)
(* choice; these are the shapes the code distinguishes.                    *)
(*   resolves = FALSE : the call rejects (network error, rejected request) *)
(*   json = FALSE     : the text is not JSON (JSON.parse throws)           *)
(*   object = FALSE   : the text is JSON null (parsed.category throws)     *)
(* A missing field is "undefined" (category) or NaN after Math.max/min.    *)
(***************************************************************************)
EngineResponse(resolves, json, object, category, confidence) ==
    [resolves |-> resolves, json |-> json, object |-> object,
     category |-> category, confidence |-> confidence]

ClassifyResponses ==
    { EngineResponse(FALSE, FALSE, FALSE, "", 0),
      EngineResponse(TRUE, FALSE, FALSE, "", 0),
      EngineResponse(TRUE, TRUE, FALSE, "", 0),
      EngineResponse(TRUE, TRUE, TRUE, "billing", 9000),
      EngineResponse(TRUE, TRUE, TRUE, "tech", 17000),
      EngineResponse(TRUE, TRUE, TRUE, "account", 7000),
      EngineResponse(TRUE, TRUE, TRUE, "other", NaN) }

\* The try block of classifyCategory on a response: the error thrown, or the result.
ClassifyParse(resp) ==
    IF ~resp.resolves THEN [error |-> Err("Error", "generateContent")]
    ELSE IF ~resp.json THEN [error |-> Err("SyntaxError", "JSON.parse")]
    ELSE IF ~resp.object THEN [error |-> Err("TypeError", "parsed.category")]
    ELSE [error |-> NoError,
          result |-> [category   |-> resp.category,
                      confidence |-> MathMin(MathMax(resp.confidence, 0), 10000),
                      reasoning  |-> <<>>]]

UsesStub(e) == e.STUB_MODE \/ ~e.model

\* classifyCategory whose catch block answers 'other' instead of calling the heuristic.
classifyCategoryCatchOther(e, ticket, resp) ==
    IF UsesStub(e) THEN stubClassifyCategory(ticket)
    ELSE IF ClassifyParse(resp).error # NoError
    THEN [category |-> "other", confidence |-> 5000, reasoning |-> Str_NoKeywords]
    ELSE ClassifyParse(resp).result

\* classifyCategory(ticket, traceId) when the engine, if asked, answers resp
classifyCategory(e, ticket, resp) ==
    IF UsesStub(e) THEN stubClassifyCategory(ticket)
    ELSE IF ClassifyParse(resp).error # NoError THEN stubClassifyCategory(ticket)
    ELSE ClassifyParse(resp).result

DraftResponse(resolves, text, tokens) ==
    [resolves |-> resolves, text |-> text, tokens |-> tokens]

\* An engine answer one character longer than a suggestion may hold.
OverlongReply == [i \in 1..(DraftReplyMaxLength + 1) |-> "x"]

DraftResponses ==
    { DraftResponse(FALSE, <<>>, 0),
      DraftResponse(TRUE, Str_EngineReply, 42),
      DraftResponse(TRUE, Str_Blank, 0),
      DraftResponse(TRUE, OverlongReply, 900) }

\* generateDraftReply(ticket, articles, categoryResult, traceId) when the engine, if
\* asked, answers resp
generateDraftReply(e, ticket, arts, categoryResult, resp) ==
    IF UsesStub(e) THEN stubGenerateDraftReply(ticket, arts, categoryResult)
    ELSE IF ~resp.resolves THEN stubGenerateDraftReply(ticket, arts, categoryResult)
    ELSE [reply |-> Trim(resp.text), tokensUsed |-> resp.tokens]

(***************************************************************************)
(* Triage orchestrator.  A run is one invocation of processTicket (or of   *)
(* getStubResult called directly); pc is the await it is suspended at.     *)
(***************************************************************************)
Slots == 1..MaxStarts

NoCategoryResult == [category |-> "", confidence |-> 0, reasoning |-> <<>>]

NoDraftResult == [reply |-> <<>>, tokensUsed |-> 0]

IdleRun ==
    [pc |-> "idle", entry |-> "", ticket |-> 0, traceId |-> 0, fallback |-> FALSE,
     categoryResult |-> NoCategoryResult, arts |-> <<>>, draftResult |-> NoDraftResult,
     confidence |-> 0, suggestion |-> NoSuggestion, config |-> NoConfig,
     shouldAutoClose |-> FALSE, error |-> NoError, thrown |-> NoError,
     \* history of the run, for stating properties: whether a step was made to fail,
     \* the engine calls that failed, the searches of the current
     \* retrieveRelevantArticles call, the number of audit events written
     faulted |-> FALSE, engineFailed |-> {}, searches |-> <<>>, written |-> 0,
     hadSuggestion |-> FALSE]

\* The awaits of processTicket inside its try block, and those of getStubResult.
TrySteps ==
    { "log_start", "classify", "search1", "search2", "log_retrieved", "draft", "create",
      "config_find", "config_create", "save", "log_auto_closed", "log_done" }

AwaitSteps == TrySteps \cup {"log_failed"}

\* What the caller gets when the run has returned: {suggestion, shouldAutoClose, traceId}
Result(r) ==
    [suggestion |-> r.suggestion, shouldAutoClose |-> r.shouldAutoClose,
     traceId |-> r.traceId]

\* An error raised at an await of run r: caught by processTicket's catch when raised
\* inside its try block, otherwise it rejects the promise the caller holds (the
\* locals of the invocation are gone then; its history is kept).
Raise(r, err) ==
    IF r.entry = "processTicket" /\ ~r.fallback /\ r.pc \in TrySteps
    THEN [r EXCEPT !.pc = "log_failed", !.error = err]
    ELSE [IdleRun EXCEPT !.pc = "thrown", !.thrown = err,
                         !.entry = r.entry, !.ticket = r.ticket, !.traceId = r.traceId,
                         !.fallback = r.fallback, !.error = r.error,
                         !.faulted = r.faulted, !.engineFailed = r.engineFailed,
                         !.searches = r.searches, !.written = r.written,
                         !.hadSuggestion = r.hadSuggestion]

PrimarySearchOptions(category) ==
    [status |-> "published", category |-> category, limit |-> 5]

\* The second search with the first search's limit.
FallbackSearchOptionsLimit5 == [status |-> "published", category |-> "", limit |-> 5]

FallbackSearchOptions == [status |-> "published", category |-> "", limit |-> 3]

\* The fields both AgentSuggestion.create calls pass.
SuggestionFields(e, r) ==
    [ticketId |-> r.ticket, traceId |-> r.traceId,
     predictedCategory |-> r.categoryResult.category,
     categoryConfidence |-> r.categoryResult.confidence,
     articleIds |-> [i \in 1..Len(r.arts) |-> r.arts[i]._id],
     draftReply |-> r.draftResult.reply,
     confidence |-> r.confidence,
     modelInfo |-> [model |-> IF r.fallback \/ e.STUB_MODE THEN "stub" ELSE "gemini-pro",
                    tokensUsed |-> IF r.fallback THEN 0 ELSE r.draftResult.tokensUsed]]

\* The decision with `>` for `>=`.
ShouldAutoCloseAbove(config, confidence) ==
    /\ config.autoCloseEnabled
    /\ confidence # NaN
    /\ confidence > config.confidenceThreshold

\* config.autoCloseEnabled && confidence >= config.confidenceThreshold
ShouldAutoClose(config, confidence) ==
    /\ config.autoCloseEnabled
    /\ confidence # NaN
    /\ confidence >= config.confidenceThreshold

\* Invocations overlap freely in heuristic mode; with the external engine the model
\* follows MaxEngineStarts invocations (the stores they share are the same in both modes).
MayStart == UsesStub(env) \/ started < MaxEngineStarts

\* processTicket(ticket) is called: traceId = uuidv4(), then the first logAction is awaited.
Start(p, t) ==
    /\ started < MaxStarts
    /\ MayStart
    /\ p = started + 1
    /\ runs[p].pc = "idle"
    /\ runs' = [runs EXCEPT ![p] =
                   [IdleRun EXCEPT !.pc = "log_start", !.entry = "processTicket",
                                   !.ticket = t, !.traceId = nextTrace,
                                   !.hadSuggestion = \E s \in suggestions : s.ticketId = t]]
    /\ nextTrace' = nextTrace + 1
    /\ started' = started + 1
    /\ UNCHANGED <<env, articles, suggestions, auditLog, configs, nextId, updates,
                   classifyCall, confidenceCall, configRequest, agentRequest, draftCall, tickets, requests>>

\* getStubResult(ticket, traceId) is called directly: the heuristic classification
\* is synchronous, then the first search is awaited.
StartStubResult(p, t) ==
    /\ started < MaxStarts
    /\ MayStart
    /\ p = started + 1
    /\ runs[p].pc = "idle"
    /\ runs' = [runs EXCEPT ![p] =
                   [IdleRun EXCEPT !.pc = "search1", !.entry = "getStubResult",
                                   !.fallback = TRUE,
                                   !.ticket = t, !.traceId = nextTrace,
                                   !.categoryResult = stubClassifyCategory(Tickets[t]),
                                   !.hadSuggestion = \E s \in suggestions : s.ticketId = t]]
    /\ nextTrace' = nextTrace + 1
    /\ started' = started + 1
    /\ UNCHANGED <<env, articles, suggestions, auditLog, configs, nextId, updates,
                   classifyCall, confidenceCall, configRequest, agentRequest, draftCall, tickets, requests>>

\* An awaited logAction of run r with the given event; next is the run after success.
LogStep(p, event, next) ==
    LET r == runs[p]
        out == logAction(auditLog, event)
    IN  /\ auditLog' = out.log
        /\ runs' = [runs EXCEPT ![p] =
                       IF out.error # NoError THEN Raise(r, out.error)
                       ELSE [next EXCEPT !.written = r.written + 1]]
        /\ UNCHANGED <<env, articles, suggestions, configs, nextId, nextTrace, started,
                       updates, classifyCall, confidenceCall, configRequest, agentRequest, draftCall, tickets, requests>>

\* await AuditLog.logAction({action: 'category_predicted', ...})    (lines 20-27)
LogStart(p) ==
    LET r == runs[p]
    IN  /\ r.pc = "log_start"
        /\ LogStep(p, AuditEvent(Tickets[r.ticket], r.traceId, "category_predicted",
                                 [ticketTitle |-> Tickets[r.ticket].title]),
                   [r EXCEPT !.pc = "classify"])

\* await this.classifyCategory(ticket, traceId)                     (line 30)
Classify(p) ==
    LET r == runs[p]
    IN  /\ r.pc = "classify"
        /\ \E resp \in IF UsesStub(env) THEN {CHOOSE x \in ClassifyResponses : TRUE}
                       ELSE ClassifyResponses :
              runs' = [runs EXCEPT ![p] =
                  [r EXCEPT !.pc = "search1",
                            !.categoryResult = classifyCategory(env, Tickets[r.ticket], resp),
                            !.engineFailed =
                                IF ~UsesStub(env) /\ ClassifyParse(resp).error # NoError
                                THEN r.engineFailed \cup {"classify"}
                                ELSE r.engineFailed]]
        /\ UNCHANGED <<env, articles, suggestions, auditLog, configs, nextId, nextTrace,
                       started, updates, classifyCall, confidenceCall, configRequest, agentRequest, draftCall, tickets, requests>>

\* await Article.searchByKeywords(query, {status, category, limit: 5})  (lines 186-190)
Search1(p) ==
    LET r == runs[p]
        options == PrimarySearchOptions(r.categoryResult.category)
        found == searchByKeywords(articles, TicketQuery(Tickets[r.ticket]), options)
    IN  /\ r.pc = "search1"
        /\ runs' = [runs EXCEPT ![p] =
               [r EXCEPT !.pc = IF Len(found) = 0 THEN "search2" ELSE "log_retrieved",
                         !.arts = found,
                         !.searches = Append(r.searches,
                                             [options |-> options, returned |-> Len(found)])]]
        /\ UNCHANGED <<env, articles, suggestions, auditLog, configs, nextId, nextTrace,
                       started, updates, classifyCall, confidenceCall, configRequest, agentRequest, draftCall, tickets, requests>>

\* await Article.searchByKeywords(query, {status, limit: 3}); articles.push(...)
\*                                                                  (lines 193-199)
Search2(p) ==
    LET r == runs[p]
        options == FallbackSearchOptions
        found == searchByKeywords(articles, TicketQuery(Tickets[r.ticket]), options)
    IN  /\ r.pc = "search2"
        /\ runs' = [runs EXCEPT ![p] =
               [r EXCEPT !.pc = "log_retrieved",
                         !.arts = r.arts \o found,
                         !.searches = Append(r.searches,
                                             [options |-> options, returned |-> Len(found)])]]
        /\ UNCHANGED <<env, articles, suggestions, auditLog, configs, nextId, nextTrace,
                       started, updates, classifyCall, confidenceCall, configRequest, agentRequest, draftCall, tickets, requests>>

\* The synchronous rest of getStubResult up to its create (lines 301-302).
StubDraft(r) ==
    LET draft == stubGenerateDraftReply(Tickets[r.ticket], r.arts, r.categoryResult)
    IN  [r EXCEPT !.pc = "create",
                  !.draftResult = draft,
                  !.confidence = calculateOverallConfidence(r.categoryResult, draft, r.arts)]

\* A retrieval that logs articles_retrieved only when it found something.
LogRetrievedSkipsEmpty(p) ==
    LET r == runs[p]
        next == IF r.fallback THEN StubDraft(r) ELSE [r EXCEPT !.pc = "draft"]
    IN  /\ r.pc = "log_retrieved"
        /\ IF Len(r.arts) = 0
           THEN /\ runs' = [runs EXCEPT ![p] = next]
                /\ UNCHANGED <<env, articles, suggestions, auditLog, configs, nextId,
                               nextTrace, started, updates, classifyCall, confidenceCall, configRequest, agentRequest, draftCall,
                               tickets, requests>>
           ELSE LogStep(p, AuditEvent(Tickets[r.ticket], r.traceId, "articles_retrieved",
                                      [query |-> Substring0(TicketQuery(Tickets[r.ticket]), 100),
                                       category |-> r.categoryResult.category,
                                       articleIds |-> [i \in 1..Len(r.arts) |-> r.arts[i]._id]]),
                        next)

\* await AuditLog.logAction({action: 'articles_retrieved', ...})    (lines 201-214)
LogRetrieved(p) ==
    LET r == runs[p]
    IN  /\ r.pc = "log_retrieved"
        /\ LogStep(p, AuditEvent(Tickets[r.ticket], r.traceId, "articles_retrieved",
                                 [query |-> Substring0(TicketQuery(Tickets[r.ticket]), 100),
                                  category |-> r.categoryResult.category,
                                  articleIds |-> [i \in 1..Len(r.arts) |-> r.arts[i]._id]]),
                   IF r.fallback THEN StubDraft(r) ELSE [r EXCEPT !.pc = "draft"])

\* await this.generateDraftReply(...); this.calculateOverallConfidence(...)  (lines 36-39)
Draft(p) ==
    LET r == runs[p]
    IN  /\ r.pc = "draft"
        /\ \E resp \in IF UsesStub(env) THEN {CHOOSE x \in DraftResponses : TRUE}
                       ELSE DraftResponses :
              LET draft == generateDraftReply(env, Tickets[r.ticket], r.arts,
                                              r.categoryResult, resp)
              IN  runs' = [runs EXCEPT ![p] =
                      [r EXCEPT !.pc = "create",
                                !.draftResult = draft,
                                !.confidence =
                                    calculateOverallConfidence(r.categoryResult, draft, r.arts),
                                !.engineFailed =
                                    IF ~UsesStub(env) /\ ~resp.resolves
                                    THEN r.engineFailed \cup {"draft"}
                                    ELSE r.engineFailed]]
        /\ UNCHANGED <<env, articles, suggestions, auditLog, configs, nextId, nextTrace,
                       started, updates, classifyCall, confidenceCall, configRequest, agentRequest, draftCall, tickets, requests>>

\* await AgentSuggestion.create({...})              (lines 42-56, and 304-324 in getStubResult)
Create(p) ==
    LET r == runs[p]
        out == SuggestionCreate(suggestions, SuggestionFields(env, r), nextId)
    IN  /\ r.pc = "create"
        /\ suggestions' = out.coll
        /\ nextId' = IF out.error = NoError THEN nextId + 1 ELSE nextId
        /\ runs' = [runs EXCEPT ![p] =
               IF out.error # NoError THEN Raise(r, out.error)
               ELSE IF r.fallback
               THEN [r EXCEPT !.pc = "returned", !.suggestion = out.doc,
                              !.shouldAutoClose = FALSE]
               ELSE [r EXCEPT !.pc = "config_find", !.suggestion = out.doc]]
        /\ UNCHANGED <<env, articles, auditLog, configs, nextTrace, started, updates,
                       classifyCall, confidenceCall, configRequest, agentRequest, draftCall, tickets, requests>>

\* Lines 60-63 of processTicket once getConfig has resolved with config: the decision,
\* and suggestion.autoClosed = true on the in-memory document before save is awaited.
Decide(r, config) ==
    LET should == ShouldAutoClose(config, r.confidence)
    IN  [r EXCEPT !.config = config,
                  !.shouldAutoClose = should,
                  !.suggestion = IF should THEN [r.suggestion EXCEPT !.autoClosed = TRUE]
                                 ELSE r.suggestion,
                  !.pc = IF should THEN "save" ELSE "log_done"]

\* Config.getConfig(): await this.findById('config')                (Config.js line 134)
ConfigFind(p) ==
    LET r == runs[p]
    IN  /\ r.pc = "config_find"
        /\ runs' = [runs EXCEPT ![p] =
               IF configs = {} THEN [r EXCEPT !.pc = "config_create"]
               ELSE Decide(r, CHOOSE c \in configs : TRUE)]
        /\ UNCHANGED <<env, articles, suggestions, auditLog, configs, nextId, nextTrace,
                       started, updates, classifyCall, confidenceCall, configRequest, agentRequest, draftCall, tickets, requests>>

\* Config.getConfig(): await this.create({}) under the unique _id   (Config.js line 138)
ConfigCreate(p) ==
    LET r == runs[p]
    IN  /\ r.pc = "config_create"
        /\ IF configs # {}
           THEN /\ runs' = [runs EXCEPT ![p] =
                       Raise(r, Err("MongoServerError E11000", "Config._id"))]
                /\ UNCHANGED configs
           ELSE /\ configs' = {DefaultConfig}
                /\ runs' = [runs EXCEPT ![p] = Decide(r, DefaultConfig)]
        /\ UNCHANGED <<env, articles, suggestions, auditLog, nextId, nextTrace, started,
                       updates, classifyCall, confidenceCall, configRequest, agentRequest, draftCall, tickets, requests>>

\* suggestion.save() that writes nothing.
SaveSkipsWrite(p) ==
    /\ runs[p].pc = "save"
    /\ runs' = [runs EXCEPT ![p] = [runs[p] EXCEPT !.pc = "log_auto_closed"]]
    /\ UNCHANGED <<env, articles, suggestions, auditLog, configs, nextId, nextTrace,
                   started, updates, classifyCall, confidenceCall, configRequest, agentRequest, draftCall, tickets, requests>>

\* suggestion.save() that also resolves the stored ticket.
SaveResolvesTicket(p) ==
    LET r == runs[p]
    IN  /\ r.pc = "save"
        /\ suggestions' = {IF s._id = r.suggestion._id THEN [s EXCEPT !.autoClosed = TRUE]
                           ELSE s : s \in suggestions}
        /\ tickets' = [tickets EXCEPT ![r.ticket] = [@ EXCEPT !.status = "resolved"]]
        /\ runs' = [runs EXCEPT ![p] = [r EXCEPT !.pc = "log_auto_closed"]]
        /\ UNCHANGED <<env, articles, auditLog, configs, nextId, nextTrace, started,
                       updates, classifyCall, confidenceCall, configRequest, agentRequest, draftCall, requests>>

\* await suggestion.save(): the modified path autoClosed is written   (line 64)
Save(p) ==
    LET r == runs[p]
    IN  /\ r.pc = "save"
        /\ suggestions' = {IF s._id = r.suggestion._id THEN [s EXCEPT !.autoClosed = TRUE]
                           ELSE s : s \in suggestions}
        /\ runs' = [runs EXCEPT ![p] = [r EXCEPT !.pc = "log_auto_closed"]]
        /\ UNCHANGED <<env, articles, auditLog, configs, nextId, nextTrace, started,
                       updates, classifyCall, confidenceCall, configRequest, agentRequest, draftCall, tickets, requests>>

\* await AuditLog.logAction({action: 'auto_closed', ...})           (lines 66-77)
LogAutoClosed(p) ==
    LET r == runs[p]
    IN  /\ r.pc = "log_auto_closed"
        /\ LogStep(p, AuditEvent(Tickets[r.ticket], r.traceId, "auto_closed",
                                 [confidence |-> r.confidence,
                                  threshold |-> r.config.confidenceThreshold,
                                  draftReply |-> r.draftResult.reply]),
                   [r EXCEPT !.pc = "log_done"])

\* processTicket returning without its closing audit event.
LogDoneSkipsAudit(p) ==
    /\ runs[p].pc = "log_done"
    /\ runs' = [runs EXCEPT ![p] = [runs[p] EXCEPT !.pc = "returned"]]
    /\ UNCHANGED <<env, articles, suggestions, auditLog, configs, nextId, nextTrace,
                   started, updates, classifyCall, confidenceCall, configRequest, agentRequest, draftCall, tickets, requests>>

\* await AuditLog.logAction({action: 'reply_drafted', ...}); return  (lines 80-98)
LogDone(p) ==
    LET r == runs[p]
    IN  /\ r.pc = "log_done"
        /\ LogStep(p, AuditEvent(Tickets[r.ticket], r.traceId, "reply_drafted",
                                 [confidence |-> r.confidence,
                                  category |-> r.categoryResult.category,
                                  articlesFound |-> Len(r.arts),
                                  autoClosed |-> r.shouldAutoClose]),
                   [r EXCEPT !.pc = "returned"])

\* catch: await AuditLog.logAction({action: 'triage_failed', ...}), then
\* getStubResult(ticket, traceId) starts with the heuristic classification (lines 100-114, 299)
LogFailed(p) ==
    LET r == runs[p]
    IN  /\ r.pc = "log_failed"
        /\ LogStep(p, AuditEvent(Tickets[r.ticket], r.traceId, "triage_failed",
                                 [error |-> r.error]),
                   [r EXCEPT !.pc = "search1", !.fallback = TRUE, !.searches = <<>>,
                             !.categoryResult = stubClassifyCategory(Tickets[r.ticket])])

\* The operation awaited at the current step rejects (store unreachable, ticket data the
\* step cannot handle, ...); at most one such failure per run.
Fault(p) ==
    LET r == runs[p]
    IN  /\ r.pc \in AwaitSteps
        /\ ~r.faulted
        /\ runs' = [runs EXCEPT ![p] = Raise([r EXCEPT !.faulted = TRUE], Err("Error", r.pc))]
        /\ UNCHANGED <<env, articles, suggestions, auditLog, configs, nextId, nextTrace,
                       started, updates, classifyCall, confidenceCall, configRequest, agentRequest, draftCall, tickets, requests>>

\* await this.model.generateContent(prompt) in classifyCategory (line 134) or
\* generateDraftReply (line 246) when the engine never answers: the promise stays
\* pending, and the code sets no timer and passes no timeout that would settle it.
EngineSilent(p) ==
    LET r == runs[p]
    IN  /\ ~UsesStub(env)
        /\ r.pc \in {"classify", "draft"}
        /\ runs' = [runs EXCEPT ![p] = [r EXCEPT !.pc = "engine_pending"]]
        /\ UNCHANGED <<env, articles, suggestions, auditLog, configs, nextId, nextTrace,
                       started, updates, classifyCall, confidenceCall, configRequest, agentRequest, draftCall, tickets, requests>>

\* The continuation of run p after the operation it awaits has settled.
RunStep(p) ==
    \/ LogStart(p) \/ Classify(p) \/ Search1(p) \/ Search2(p) \/ LogRetrieved(p)
    \/ Draft(p) \/ Create(p) \/ ConfigFind(p) \/ ConfigCreate(p) \/ Save(p)
    \/ LogAutoClosed(p) \/ LogDone(p) \/ LogFailed(p)

(***************************************************************************)
(* Configuration updates (PUT /config -> Config.updateConfig).             *)
(***************************************************************************)
\* A threshold equal to the confidence the heuristic pipeline computes for ticket 1.
Ticket1Confidence ==
    LET c == stubClassifyCategory(Tickets[1])
        arts == searchByKeywords(InitialArticles, TicketQuery(Tickets[1]),
                                 PrimarySearchOptions(c.category))
    IN  calculateOverallConfidence(c, stubGenerateDraftReply(Tickets[1], arts, c), arts)

ConfigUpdates ==
    { [autoCloseEnabled |-> TRUE,  confidenceThreshold |-> Ticket1Confidence],
      [autoCloseEnabled |-> TRUE,  confidenceThreshold |-> Ticket1Confidence + 1],
      [autoCloseEnabled |-> TRUE,  confidenceThreshold |-> 1000] }

\* The keys updateConfigSchema and allowedUpdates of Config.updateConfig both list.
AllowedUpdates ==
    { "autoCloseEnabled", "confidenceThreshold", "slaHours", "aiModel", "stubMode",
      "emailNotificationsEnabled", "autoAssignmentEnabled", "maxTicketsPerAgent",
      "businessHours", "kbSettings", "limits" }

\* validateRequest(updateConfigSchema): no unknown key, Joi.number().min(0).max(1) for
\* the threshold, Joi.number().min(1).max(168) for slaHours
UpdateConfigSchemaOk(u) ==
    /\ DOMAIN u \subseteq AllowedUpdates
    /\ "autoCloseEnabled" \in DOMAIN u => u.autoCloseEnabled \in BOOLEAN
    /\ "confidenceThreshold" \in DOMAIN u =>
           u.confidenceThreshold >= 0 /\ u.confidenceThreshold <= 10000
    /\ "slaHours" \in DOMAIN u => u.slaHours >= 1 /\ u.slaHours <= 168

\* The validators of configSchema without min and max of confidenceThreshold.
ConfigValidateNoRange(doc) ==
    IF doc.slaHours < 1 \/ doc.slaHours > 168
    THEN Err("ValidationError", "Config.slaHours")
    ELSE NoError

\* The validators of configSchema that save() runs: min and max.
ConfigValidate(doc) ==
    IF doc.confidenceThreshold < 0 \/ doc.confidenceThreshold > 10000
    THEN Err("ValidationError", "Config.confidenceThreshold")
    ELSE IF doc.slaHours < 1 \/ doc.slaHours > 168
    THEN Err("ValidationError", "Config.slaHours")
    ELSE NoError

\* updateKeys.forEach(key => config[key] = updates[key]), for the fields of the model
ApplyUpdates(config, u) ==
    [config EXCEPT
        !.autoCloseEnabled = IF "autoCloseEnabled" \in DOMAIN u THEN u.autoCloseEnabled
                             ELSE @,
        !.confidenceThreshold = IF "confidenceThreshold" \in DOMAIN u
                                THEN u.confidenceThreshold ELSE @,
        !.slaHours = IF "slaHours" \in DOMAIN u THEN u.slaHours ELSE @]

\* Config.updateConfig(updates, updatedBy): the error it throws, if any, and the
\* collection afterwards.  Its getConfig() creates the default document when there is
\* none, also when the update is refused afterwards.
updateConfig(coll, u) ==
    LET config == IF coll = {} THEN DefaultConfig ELSE CHOOSE c \in coll : TRUE
        next == [ApplyUpdates(config, u) EXCEPT !.version = config.version + 1]
    IN  IF ~(DOMAIN u \subseteq AllowedUpdates)
        THEN [error |-> Err("Error", "Invalid configuration update"), coll |-> {config}]
        ELSE IF ConfigValidate(next) # NoError
        THEN [error |-> ConfigValidate(next), coll |-> {config}]
        ELSE [error |-> NoError, coll |-> {next}]

\* The last request on the configuration: its route, body and response status.
NoConfigRequest == [route |-> "", body |-> <<>>, status |-> 0, served |-> 0]

\* The feature flags PATCH /config/features accepts, of the fields of the model.
AllowedFeatures == {"autoCloseEnabled", "emailNotificationsEnabled", "autoAssignmentEnabled"}

\* One request on the configuration, served as a whole; n is the number of PUT
\* /config requests served afterwards.
\*   "put":          PUT /config            validateRequest, then Config.updateConfig
\*   "updateConfig": Config.updateConfig called with any updates object
\*   "features":     PATCH /config/features {feature, enabled}
\*   "reset":        POST /config/reset     delete, getConfig(), save
ServeConfig(route, u, n) ==
    LET refused == CASE route = "put"      -> ~UpdateConfigSchemaOk(u)
                     [] route = "features" -> u.feature \notin AllowedFeatures
                                                  \/ u.type # "boolean"
                     [] OTHER              -> FALSE
        out == CASE route = "reset"    -> [error |-> NoError, coll |-> {DefaultConfig}]
                 [] route = "features" ->
                        updateConfig(configs, [k \in {u.feature} |-> u.enabled])
                 [] OTHER              -> updateConfig(configs, u)
    IN  /\ updates' = n
        /\ configs' = IF refused THEN configs ELSE out.coll
        /\ configRequest' =
               [route |-> route, body |-> u, served |-> configRequest.served + 1,
                status |-> IF refused THEN 400
                           ELSE IF out.error # NoError THEN 500 ELSE 200]
        /\ UNCHANGED <<env, articles, suggestions, auditLog, runs, nextId, nextTrace,
                       started, classifyCall, confidenceCall, agentRequest, draftCall,
                       tickets, requests>>

\* PUT /config with body u: Config.updateConfig(u, admin)
PutConfig(u) ==
    /\ updates < MaxConfigUpdates
    /\ ServeConfig("put", u, updates + 1)

\* Bodies of PUT /config and arguments of Config.updateConfig: thresholds at and
\* beyond both ends of [0, 1], an slaHours out of range, unknown keys.
ConfigBodies ==
    ConfigUpdates \cup
    { [confidenceThreshold |-> 0], [confidenceThreshold |-> 10000],
      [confidenceThreshold |-> 10001], [confidenceThreshold |-> 0 - 1],
      [autoCloseEnabled |-> TRUE, confidenceThreshold |-> 25000],
      [confidenceThreshold |-> 3000, slaHours |-> 200],
      [confidenceThreshold |-> 3000, version |-> 99],
      [threshold |-> 3000] }

\* Bodies of PATCH /config/features; type is typeof enabled, and the string is 'true'.
FeatureBodies ==
    { [feature |-> "autoCloseEnabled", type |-> "boolean", enabled |-> TRUE],
      [feature |-> "autoCloseEnabled", type |-> "string", enabled |-> TRUE],
      [feature |-> "confidenceThreshold", type |-> "boolean", enabled |-> TRUE] }

\* A request on the configuration in SpecConfig.
ConfigRequest(route, u) ==
    /\ configRequest.served < MaxConfigRequests
    /\ ServeConfig(route, u, updates)

(***************************************************************************)
(* Ticket store, and ticket creation (POST /tickets) with the triage task  *)
(* it schedules.  A request is named by the ticket it creates; the body of *)
(* the request for ticket t is the title and description of Tickets[t].   *)
(***************************************************************************)
\* ticketSchema.status enum
TicketStatuses == {"open", "triaged", "waiting_human", "in_progress", "resolved", "closed"}

\* pendingAssignment of a ticket nobody has asked for
NoPendingAssignment == [requestedBy |-> 0, status |-> ""]

\* No Ticket document.  An unset ObjectId is 0; slaDeadline is kept as the number of
\* hours after createdAt.
NoTicket ==
    [status |-> "", category |-> "", replies |-> <<>>, assignee |-> 0,
     pendingAssignment |-> NoPendingAssignment, agentSuggestionId |-> 0, slaDeadline |-> 0]

\* new Ticket({title, description, createdBy}): the defaults of ticketSchema
NewTicket == [NoTicket EXCEPT !.status = "open", !.category = "other"]

\* Schema validation of a Ticket document on save: the error, or NoError.
TicketValidate(doc) ==
    IF doc.status \notin TicketStatuses THEN Err("ValidationError", "Ticket.status")
    ELSE IF \E i \in 1..Len(doc.replies) : doc.replies[i].author = 0
    THEN Err("ValidationError", "Ticket.replies.author")
    ELSE IF \E i \in 1..Len(doc.replies) :
                doc.replies[i].content = <<>> \/ Len(doc.replies[i].content) > 5000
    THEN Err("ValidationError", "Ticket.replies.content")
    ELSE NoError

\* ticket.setSLA(hours)
setSLA(doc, hours) == IF hours > 0 THEN [doc EXCEPT !.slaDeadline = hours] ELSE doc

\* ticket.addReply(authorId, content, isInternal) up to its this.save(); null is 0
addReply(doc, authorId, content, isInternal) ==
    [doc EXCEPT !.replies = Append(@, [author |-> authorId, content |-> content,
                                       isInternal |-> isInternal])]

\* traceId `ticket-${ticket._id}` of the creation event, apart from every uuid
TicketTraceId(t) == 0 - t

NoResponse == [status |-> 0, ticket |-> NoTicket]

\* A request not made yet.  doc is the in-memory ticket document the handler and its
\* triage callback share; task is the position of the triage callback.
NoRequest == [pc |-> "idle", doc |-> NoTicket, response |-> NoResponse, task |-> "none"]

\* const ticket = new Ticket(ticketData); await ticket.save()     (part_007 lines 533-536)
PostTicket(t) ==
    /\ Cardinality({u \in TicketIds : requests[u].pc # "idle"}) < MaxRequests
    /\ requests[t].pc = "idle"
    /\ tickets[t] = NoTicket
    /\ tickets' = [tickets EXCEPT ![t] = NewTicket]
    /\ requests' = [requests EXCEPT ![t] = [@ EXCEPT !.pc = "config_find", !.doc = NewTicket]]
    /\ UNCHANGED <<env, articles, suggestions, auditLog, configs, runs, nextId, nextTrace,
                   started, updates, classifyCall, confidenceCall, configRequest, agentRequest, draftCall>>

\* Config.getConfig(): await this.findById('config'); then ticket.setSLA(config.slaHours)
\* and the second ticket.save() is issued                (part_007 lines 539-547)
HandlerConfigFind(t) ==
    LET q == requests[t]
    IN  /\ q.pc = "config_find"
        /\ requests' = [requests EXCEPT ![t] =
               IF configs = {} THEN [q EXCEPT !.pc = "config_create"]
               ELSE [q EXCEPT !.pc = "save_sla",
                              !.doc = setSLA(q.doc, (CHOOSE c \in configs : TRUE).slaHours)]]
        /\ UNCHANGED <<env, articles, suggestions, auditLog, configs, runs, nextId,
                       nextTrace, started, updates, classifyCall, confidenceCall, configRequest, agentRequest, draftCall, tickets>>

\* Config.getConfig(): await this.create({}); a rejection is caught and the SLA falls
\* back to 24 hours                                      (part_007 lines 540-546)
HandlerConfigCreate(t) ==
    LET q == requests[t]
    IN  /\ q.pc = "config_create"
        /\ IF configs # {}
           THEN /\ requests' = [requests EXCEPT ![t] =
                       [q EXCEPT !.pc = "save_sla", !.doc = setSLA(q.doc, 24)]]
                /\ UNCHANGED configs
           ELSE /\ configs' = {DefaultConfig}
                /\ requests' = [requests EXCEPT ![t] =
                       [q EXCEPT !.pc = "save_sla",
                                 !.doc = setSLA(q.doc, DefaultConfig.slaHours)]]
        /\ UNCHANGED <<env, articles, suggestions, auditLog, runs, nextId, nextTrace,
                       started, updates, classifyCall, confidenceCall, configRequest, agentRequest, draftCall, tickets>>

\* await ticket.save() with the SLA deadline; ticket.populate(...) reads the user and
\* changes nothing                                       (part_007 lines 547-550)
HandlerSaveSLA(t) ==
    LET q == requests[t]
    IN  /\ q.pc = "save_sla"
        /\ tickets' = [tickets EXCEPT ![t] = q.doc]
        /\ requests' = [requests EXCEPT ![t] = [q EXCEPT !.pc = "log_created"]]
        /\ UNCHANGED <<env, articles, suggestions, auditLog, configs, runs, nextId,
                       nextTrace, started, updates, classifyCall, confidenceCall, configRequest, agentRequest, draftCall>>

\* await AuditLog.logAction({action: 'ticket_created', ...}); then setImmediate(callback)
\* schedules the triage task and res.status(201).json({ticket}) is sent in the same
\* synchronous stretch                                   (part_007 lines 553-590)
HandlerLogCreated(t) ==
    LET q == requests[t]
        out == logAction(auditLog,
                         [ticketId |-> t, traceId |-> TicketTraceId(t), actor |-> "user",
                          action |-> "ticket_created",
                          meta |-> [category |-> q.doc.category]])
    IN  /\ q.pc = "log_created"
        /\ auditLog' = out.log
        /\ requests' = [requests EXCEPT ![t] =
               IF out.error # NoError
               THEN [q EXCEPT !.pc = "failed", !.response = [status |-> 500, ticket |-> NoTicket]]
               ELSE [q EXCEPT !.pc = "responded", !.task = "pending",
                              !.response = [status |-> 201, ticket |-> q.doc]]]
        /\ UNCHANGED <<env, articles, suggestions, configs, runs, nextId, nextTrace,
                       started, updates, classifyCall, confidenceCall, configRequest, agentRequest, draftCall, tickets>>

\* The run of processTicket the triage task of ticket t awaits.
TaskRuns(t) == {p \in Slots : runs[p].ticket = t /\ runs[p].entry = "processTicket"}

\* The scheduled callback starts: aiService.processTicket(ticket)   (part_007 line 569)
TriageStart(p, t) ==
    /\ requests[t].task = "pending"
    /\ TaskRuns(t) = {}
    /\ Start(p, t)

\* processTicket has resolved: the callback sets status and agentSuggestionId on the
\* in-memory ticket and awaits addReply's save, or the save         (lines 571-579)
TriageResult(t) ==
    LET q == requests[t]
    IN  /\ q.task = "pending"
        /\ \E p \in TaskRuns(t) :
              /\ runs[p].pc = "returned"
              /\ LET result == Result(runs[p])
                     doc == [q.doc EXCEPT
                                !.status = IF result.shouldAutoClose THEN "resolved"
                                           ELSE "triaged",
                                !.agentSuggestionId = result.suggestion._id]
                 IN  requests' = [requests EXCEPT ![t] =
                         IF result.shouldAutoClose
                         THEN [q EXCEPT !.task = "add_reply",
                                        !.doc = addReply(doc, 0, result.suggestion.draftReply,
                                                         FALSE)]
                         ELSE [q EXCEPT !.task = "save", !.doc = doc]]
        /\ UNCHANGED <<env, articles, suggestions, auditLog, configs, runs, nextId,
                       nextTrace, started, updates, classifyCall, confidenceCall, configRequest, agentRequest, draftCall, tickets>>

\* The paths of the ticket schema a route or the triage callback assigns to.
TicketPaths == {"status", "assignee", "pendingAssignment", "agentSuggestionId"}

\* The paths of doc that differ from the document that was loaded.
ModifiedTicketPaths(loaded, doc) == {f \in TicketPaths : loaded[f] # doc[f]}

\* document.save() of a ticket that is already stored: the modified paths of doc are
\* set on the stored document and the pushed replies are appended to its replies.
SaveTicket(stored, doc, paths, pushed) ==
    [stored EXCEPT
        !.status = IF "status" \in paths THEN doc.status ELSE @,
        !.assignee = IF "assignee" \in paths THEN doc.assignee ELSE @,
        !.pendingAssignment = IF "pendingAssignment" \in paths THEN doc.pendingAssignment
                              ELSE @,
        !.agentSuggestionId = IF "agentSuggestionId" \in paths THEN doc.agentSuggestionId
                              ELSE @,
        !.replies = @ \o pushed]

\* The save a callback awaits settles: validation, then the write; a rejection is
\* caught by the callback's catch and only logged to the console.  The callback has
\* assigned status and agentSuggestionId; addReply has pushed the replies of the
\* in-memory document, and the save after addReply's has nothing left to write.
TaskSave(t, next) ==
    LET q == requests[t]
        paths == IF q.task = "save" /\ q.doc.replies # <<>> THEN {}
                 ELSE {"status", "agentSuggestionId"}
        pushed == IF q.task = "add_reply" THEN q.doc.replies ELSE <<>>
    IN  /\ IF TicketValidate(q.doc) # NoError
           THEN /\ requests' = [requests EXCEPT ![t] = [q EXCEPT !.task = "failed"]]
                /\ UNCHANGED tickets
           ELSE /\ requests' = [requests EXCEPT ![t] = [q EXCEPT !.task = next]]
                /\ tickets' = [tickets EXCEPT ![t] = SaveTicket(@, q.doc, paths, pushed)]
        /\ UNCHANGED <<env, articles, suggestions, auditLog, configs, runs, nextId,
                       nextTrace, started, updates, classifyCall, confidenceCall, configRequest, agentRequest, draftCall>>

\* await ticket.addReply(null, suggestion.draftReply, false): its this.save()  (line 574)
TriageAddReply(t) == requests[t].task = "add_reply" /\ TaskSave(t, "save")

\* await ticket.save()                                             (lines 575, 579)
TriageSave(t) == requests[t].task = "save" /\ TaskSave(t, "done")

\* A catch that hands the stored ticket over to a human.
TriageCatchEscalates(t) ==
    LET q == requests[t]
    IN  /\ q.task = "pending"
        /\ \E p \in TaskRuns(t) : runs[p].pc = "thrown"
        /\ requests' = [requests EXCEPT ![t] = [q EXCEPT !.task = "failed"]]
        /\ tickets' = [tickets EXCEPT ![t] = [@ EXCEPT !.status = "waiting_human"]]
        /\ UNCHANGED <<env, articles, suggestions, auditLog, configs, runs, nextId,
                       nextTrace, started, updates, classifyCall, confidenceCall, configRequest, agentRequest, draftCall>>

\* processTicket has rejected: catch (error) { console.error(...) }  (lines 581-584)
TriageCatch(t) ==
    LET q == requests[t]
    IN  /\ q.task = "pending"
        /\ \E p \in TaskRuns(t) : runs[p].pc = "thrown"
        /\ requests' = [requests EXCEPT ![t] = [q EXCEPT !.task = "failed"]]
        /\ UNCHANGED <<env, articles, suggestions, auditLog, configs, runs, nextId,
                       nextTrace, started, updates, classifyCall, confidenceCall, configRequest, agentRequest, draftCall, tickets>>

(***************************************************************************)
(* Direct calls of the heuristic classifier.                               *)
(***************************************************************************)
\* calls counts the calls made again with the same argument after the first.
NoClassifyCall ==
    [ticket |-> [title |-> <<>>, description |-> <<>>], done |-> FALSE,
     result |-> NoCategoryResult, calls |-> 0]

TitleWords == {W_Invoice, W_Billing, W_Border, W_Crash, W_Hello, W_Shipment, W_General}

DescriptionWords ==
    {D_refund, D_error, D_not, D_working, D_package, D_question, D_PAYMENT, D_recharged,
     D_tracking}

ClassifyInputs ==
    {[title |-> t, description |-> a \o <<" ">> \o b] :
         t \in TitleWords, a \in DescriptionWords, b \in DescriptionWords}

CallStubClassify ==
    /\ ~classifyCall.done
    /\ classifyCall' = [classifyCall EXCEPT
                           !.done = TRUE,
                           !.result = stubClassifyCategory(classifyCall.ticket)]
    /\ UNCHANGED <<env, articles, suggestions, auditLog, configs, runs, nextId, nextTrace,
                   started, updates, confidenceCall, configRequest, agentRequest, draftCall, tickets, requests>>

\* stubClassifyCategory(ticket) is called again with the argument of the first call.
RecallStubClassify ==
    /\ classifyCall.done
    /\ classifyCall.calls < MaxRecalls
    /\ classifyCall' = [classifyCall EXCEPT
                           !.calls = @ + 1,
                           !.result = stubClassifyCategory(classifyCall.ticket)]
    /\ UNCHANGED <<env, articles, suggestions, auditLog, configs, runs, nextId, nextTrace,
                   started, updates, confidenceCall, configRequest, agentRequest, draftCall, tickets, requests>>

(***************************************************************************)
(* Direct calls of the confidence aggregator.                              *)
(***************************************************************************)
NoConfidenceCall ==
    [categoryResult |-> NoCategoryResult, draftResult |-> NoDraftResult, articles |-> <<>>,
     done |-> FALSE, result |-> 0]

\* categoryResult.confidence values, in units of 1/10000; the last is out of range
CategoryConfidences == {0, 1000, 5000, 8000, 10000, 12000}

\* articles.length values
ArticleCounts == 0..5

\* draftResult.reply.length values
ReplyLengths == {0, 5, 43, 250, 499, 500, 501, 1000}

ConfidenceInputs ==
    {[NoConfidenceCall EXCEPT
          !.categoryResult = [category |-> "tech", confidence |-> c, reasoning |-> <<>>],
          !.draftResult = [reply |-> [i \in 1..l |-> "x"], tokensUsed |-> 0],
          !.articles = searchByKeywords(InitialArticles, <<>>,
                                        [status |-> "published", category |-> "tech",
                                         limit |-> n])] :
         c \in CategoryConfidences, n \in ArticleCounts, l \in ReplyLengths}

CallCalculateConfidence ==
    /\ ~confidenceCall.done
    /\ confidenceCall' = [confidenceCall EXCEPT
                             !.done = TRUE,
                             !.result = calculateOverallConfidence(
                                            confidenceCall.categoryResult,
                                            confidenceCall.draftResult,
                                            confidenceCall.articles)]
    /\ UNCHANGED <<env, articles, suggestions, auditLog, configs, runs, nextId, nextTrace,
                   started, updates, classifyCall, configRequest, agentRequest, draftCall, tickets, requests>>

\* A direct call of stubGenerateDraftReply(ticket, articles, categoryResult).
NoDraftCall ==
    [ticket |-> [title |-> <<>>, description |-> <<>>], articles |-> <<>>,
     categoryResult |-> NoCategoryResult, done |-> FALSE, result |-> NoDraftResult]

\* ticketSchema.title and articleSchema.title: maxlength 200
TitleMaxLength == 200

\* A title of the greatest length the schemas accept.
LongestTitle == [i \in 1..TitleMaxLength |-> "x"]

\* ticket arguments: the model's tickets and one with the longest title
DraftTickets ==
    {[title |-> Tickets[t].title, description |-> Tickets[t].description] :
        t \in 1..Len(Tickets)}
    \cup {[title |-> LongestTitle, description |-> T1_description]}

\* articles arguments: what a search returns for limits 0..5, five articles with the
\* longest titles, and eleven articles that share one title
DraftArticleLists ==
    {searchByKeywords(InitialArticles, <<>>,
                      [status |-> "published", category |-> "", limit |-> n]) :
        n \in 0..5}
    \cup {[i \in 1..5 |->
              Selected(Article(200 + i, LongestTitle, "tech", "published", 0, 0, 0))],
          [i \in 1..11 |->
              Selected(Article(300 + i, A_title1, "tech", "published", 0, 0, 0))]}

DraftInputs ==
    {[NoDraftCall EXCEPT
          !.ticket = t, !.articles = a,
          !.categoryResult = [category |-> c, confidence |-> 8000, reasoning |-> <<>>]] :
        t \in DraftTickets, a \in DraftArticleLists, c \in Categories \cup {"account"}}

CallStubGenerateDraftReply ==
    /\ ~draftCall.done
    /\ draftCall' = [draftCall EXCEPT
                        !.done = TRUE,
                        !.result = stubGenerateDraftReply(draftCall.ticket,
                                                          draftCall.articles,
                                                          draftCall.categoryResult)]
    /\ UNCHANGED <<env, articles, suggestions, auditLog, configs, runs, nextId, nextTrace,
                   started, updates, classifyCall, confidenceCall, configRequest, agentRequest, tickets, requests>>

(***************************************************************************)
(* Routes of agents on suggestions.  One request is followed at a time; it *)
(* overlaps with the triage runs at its awaits.                            *)
(***************************************************************************)
\* id, ticket, modified and pushed belong to the routes on tickets: the ticket asked
\* for, its in-memory document, the paths the route has modified and the replies it
\* has pushed.
NoAgentRequest ==
    [pc |-> "idle", route |-> "", suggestion |-> NoSuggestion, status |-> 0, served |-> 0,
     id |-> 0, ticket |-> NoTicket, modified |-> {}, pushed |-> <<>>]

\* req.user._id of the agent
AgentId == 7

Str_Dismissed ==
    <<"D","i","s","m","i","s","s","e","d"," ","b","y"," ","a","g","e","n","t">>

\* Request bodies that pass agentFeedbackSchema.
FeedbackBodies ==
    { [accepted |-> TRUE,  editedReply |-> <<>>, feedbackNotes |-> <<>>, rating |-> 5],
      [accepted |-> FALSE, editedReply |-> Str_EngineReply, feedbackNotes |-> <<>>,
       rating |-> 2] }

\* submitFeedback(feedback) up to its save: this.agentFeedback = {...feedback, submittedAt}
submitFeedback(doc, feedback, now) ==
    [doc EXCEPT !.agentFeedback =
        [NoFeedback EXCEPT !.accepted = feedback.accepted,
                           !.editedReply = feedback.editedReply,
                           !.feedbackNotes = feedback.feedbackNotes,
                           !.rating = feedback.rating,
                           !.submittedBy = feedback.submittedBy,
                           !.submittedAt = now]]

\* markAsUsed() up to its save
markAsUsed(doc, now) == [doc EXCEPT !.used = TRUE, !.usedAt = now]

\* DELETE /suggestions/:id up to its save
Dismiss(doc, userId) ==
    [doc EXCEPT !.used = TRUE,
                !.agentFeedback = [NoFeedback EXCEPT !.submittedBy = userId,
                                                     !.accepted = FALSE, !.rating = 1,
                                                     !.feedbackNotes = Str_Dismissed]]

\* The paths each route has modified when it saves.
ModifiedPaths(route) ==
    CASE route = "feedback" -> {"agentFeedback"}
      [] route = "use"      -> {"used", "usedAt"}
      [] route = "dismiss"  -> {"used", "agentFeedback"}

\* A save that removes the document of a dismissed suggestion.
SaveSuggestionDeletes(coll, doc, paths) ==
    IF paths = {"used", "agentFeedback"} THEN {s \in coll : s._id # doc._id}
    ELSE {IF s._id # doc._id THEN s
          ELSE [s EXCEPT !.agentFeedback = IF "agentFeedback" \in paths THEN doc.agentFeedback
                                           ELSE s.agentFeedback,
                         !.used = IF "used" \in paths THEN doc.used ELSE s.used,
                         !.usedAt = IF "usedAt" \in paths THEN doc.usedAt ELSE s.usedAt] :
             s \in coll}

\* document.save(): the modified paths of doc are written to the stored document of
\* the same _id.
SaveSuggestion(coll, doc, paths) ==
    {IF s._id # doc._id THEN s
     ELSE [s EXCEPT !.agentFeedback = IF "agentFeedback" \in paths THEN doc.agentFeedback
                                      ELSE s.agentFeedback,
                    !.used = IF "used" \in paths THEN doc.used ELSE s.used,
                    !.usedAt = IF "usedAt" \in paths THEN doc.usedAt ELSE s.usedAt] :
        s \in coll}

\* A request arrives and AgentSuggestion.findById(req.params.id) resolves: 404 without
\* a document, otherwise the route changes the document in memory and awaits its save.
SuggestionFind(route, id, body) ==
    LET a == agentRequest
        now == a.served + 1
        found == {s \in suggestions : s._id = id}
        doc == CHOOSE s \in found : TRUE
    IN  /\ a.pc = "idle"
        /\ a.served < MaxAgentRequests
        /\ agentRequest' =
               IF found = {}
               THEN [NoAgentRequest EXCEPT !.status = 404, !.served = now]
               ELSE [a EXCEPT
                       !.pc = "save", !.route = route, !.status = 0, !.served = now,
                       !.suggestion =
                           CASE route = "feedback" ->
                                    submitFeedback(doc,
                                        [accepted |-> body.accepted,
                                         editedReply |-> body.editedReply,
                                         feedbackNotes |-> body.feedbackNotes,
                                         rating |-> body.rating,
                                         submittedBy |-> AgentId], now)
                             [] route = "use"      -> markAsUsed(doc, now)
                             [] route = "dismiss"  -> Dismiss(doc, AgentId)]
        /\ UNCHANGED <<env, articles, suggestions, auditLog, configs, runs, nextId,
                       nextTrace, started, updates, classifyCall, confidenceCall, configRequest,
                       draftCall, tickets, requests>>

\* await suggestion.save() resolves; the dismiss route answers, the others go on to log.
SuggestionSave ==
    LET a == agentRequest
    IN  /\ a.pc = "save"
        /\ suggestions' = SaveSuggestion(suggestions, a.suggestion, ModifiedPaths(a.route))
        /\ agentRequest' = IF a.route = "dismiss"
                           THEN [NoAgentRequest EXCEPT !.status = 200, !.served = a.served]
                           ELSE [a EXCEPT !.pc = "log"]
        /\ UNCHANGED <<env, articles, auditLog, configs, runs, nextId, nextTrace, started,
                       updates, classifyCall, confidenceCall, configRequest, draftCall, tickets, requests>>

\* await AuditLog.logAction({actor: 'agent', action: 'agent_reviewed' | 'reply_drafted'})
\* resolves and the route answers.
SuggestionLog ==
    LET a == agentRequest
        doc == a.suggestion
        out == logAction(auditLog,
                   [ticketId |-> doc.ticketId, traceId |-> doc.traceId, actor |-> "agent",
                    action |-> IF a.route = "feedback" THEN "agent_reviewed"
                               ELSE "reply_drafted",
                    meta |-> IF a.route = "feedback"
                             THEN [accepted |-> doc.agentFeedback.accepted,
                                   rating |-> doc.agentFeedback.rating,
                                   hasEditedReply |-> doc.agentFeedback.editedReply # <<>>]
                             ELSE [suggestionId |-> doc._id]])
    IN  /\ a.pc = "log"
        /\ auditLog' = out.log
        /\ agentRequest' = [NoAgentRequest EXCEPT
                               !.status = IF out.error = NoError THEN 200 ELSE 500,
                               !.served = a.served]
        /\ UNCHANGED <<env, articles, suggestions, configs, runs, nextId, nextTrace,
                       started, updates, classifyCall, confidenceCall, configRequest, draftCall, tickets,
                       requests>>

(***************************************************************************)
(* Routes of agents and admins on tickets: PUT /:id, POST /:id/reply,      *)
(* POST /:id/assign with and without assigneeId, POST /:id/assign/approve  *)
(* and POST /:id/assign/reject.  The agent is AgentId; the admin assigns   *)
(* to another agent.                                                       *)
(***************************************************************************)
\* Bodies of PUT /:id sent by an admin that pass updateTicketSchema.
StatusBodies == {[status |-> "in_progress"], [status |-> "waiting_human"]}

\* Bodies of POST /:id/assign sent by an admin.
AssignBodies == {[assigneeId |-> AgentId + 1]}

\* Bodies of POST /:id/reply sent by the agent.
ReplyBodies == {[content |-> Str_EngineReply, isInternal |-> FALSE]}

\* traceId `${route}-${Date.now()}` of the n-th request, apart from every other traceId
RouteTraceId(n) == 0 - (100 + n)

\* ticket.requestAssignment(agentId) up to its save: what it throws, and the document
requestAssignment(doc, agentId) ==
    IF doc.assignee # 0
    THEN [error |-> Err("Error", "Ticket is already assigned to an agent"), doc |-> doc]
    ELSE IF doc.pendingAssignment.status = "pending"
    THEN [error |-> Err("Error", "Ticket already has a pending assignment request"),
          doc |-> doc]
    ELSE IF doc.pendingAssignment.requestedBy = agentId
    THEN [error |-> Err("Error", "You have already requested assignment"), doc |-> doc]
    ELSE [error |-> NoError,
          doc |-> [doc EXCEPT !.pendingAssignment =
                                  [requestedBy |-> agentId, status |-> "pending"]]]

\* ticket.approveAssignment(adminNotes) up to its save
approveAssignment(doc) ==
    IF doc.pendingAssignment.status # "pending"
    THEN [error |-> Err("Error", "No pending assignment request to approve"), doc |-> doc]
    ELSE [error |-> NoError,
          doc |-> [doc EXCEPT !.assignee = doc.pendingAssignment.requestedBy,
                              !.pendingAssignment.status = "approved",
                              !.status = IF @ \in {"triaged", "waiting_human"}
                                         THEN "in_progress" ELSE @]]

\* ticket.rejectAssignment(adminNotes) up to its save
rejectAssignment(doc) ==
    IF doc.pendingAssignment.status # "pending"
    THEN [error |-> Err("Error", "No pending assignment request to reject"), doc |-> doc]
    ELSE [error |-> NoError,
          doc |-> [doc EXCEPT !.pendingAssignment =
                                  [requestedBy |-> 0, status |-> "rejected"]]]

\* What a route does with the ticket it has found, up to its first save: the status
\* it answers at once (0 when it goes on), the document and the replies pushed.
TicketChange(route, doc, body) ==
    CASE route = "put" ->
             [status |-> 0, doc |-> [doc EXCEPT !.status = body.status], pushed |-> <<>>]
      [] route = "reply" ->
             IF doc.assignee \notin {0, AgentId}
             THEN [status |-> 403, doc |-> doc, pushed |-> <<>>]
             ELSE [status |-> 0,
                   doc |-> addReply(doc, AgentId, body.content, body.isInternal),
                   pushed |-> <<[author |-> AgentId, content |-> body.content,
                                 isInternal |-> body.isInternal]>>]
      [] route = "assign" ->
             IF doc.assignee # 0 THEN [status |-> 400, doc |-> doc, pushed |-> <<>>]
             ELSE [status |-> 0,
                   doc |-> [doc EXCEPT !.assignee = body.assigneeId,
                                       !.status = "in_progress"],
                   pushed |-> <<>>]
      [] route = "request" ->
             [status |-> IF requestAssignment(doc, AgentId).error # NoError THEN 400 ELSE 0,
              doc |-> requestAssignment(doc, AgentId).doc, pushed |-> <<>>]
      [] route = "approve" ->
             [status |-> IF approveAssignment(doc).error # NoError THEN 400 ELSE 0,
              doc |-> approveAssignment(doc).doc, pushed |-> <<>>]
      [] route = "reject" ->
             [status |-> IF rejectAssignment(doc).error # NoError THEN 400 ELSE 0,
              doc |-> rejectAssignment(doc).doc, pushed |-> <<>>]

\* A request arrives and Ticket.findById(id) resolves: 404 without a document, an
\* answer at once when the route refuses, otherwise the route changes the document in
\* memory and awaits its save.
TicketFind(route, t, body) ==
    LET a == agentRequest
        now == a.served + 1
        out == TicketChange(route, tickets[t], body)
    IN  /\ a.pc = "idle"
        /\ a.served < MaxAgentRequests
        /\ agentRequest' =
               IF tickets[t] = NoTicket
               THEN [NoAgentRequest EXCEPT !.status = 404, !.served = now]
               ELSE IF out.status # 0
               THEN [NoAgentRequest EXCEPT !.status = out.status, !.served = now]
               ELSE [NoAgentRequest EXCEPT
                        !.pc = "ticket_save", !.route = route, !.served = now, !.id = t,
                        !.ticket = out.doc, !.pushed = out.pushed,
                        !.modified = ModifiedTicketPaths(tickets[t], out.doc)]
        /\ UNCHANGED <<env, articles, suggestions, auditLog, configs, runs, nextId,
                       nextTrace, started, updates, classifyCall, confidenceCall,
                       configRequest, draftCall, tickets, requests>>

\* await ticket.save() resolves.  PUT /:id answers when the status is the one it
\* found; the reply of an agent on a ticket that is 'waiting_human' sets 'in_progress'
\* and awaits a second save; the others go on to log.  (PUT's last save writes
\* lastActivity only.)
TicketSave ==
    LET a == agentRequest
    IN  /\ a.pc = "ticket_save"
        /\ IF TicketValidate(a.ticket) # NoError
           THEN /\ agentRequest' = [NoAgentRequest EXCEPT
                                       !.status = IF a.route = "request" THEN 400 ELSE 500,
                                       !.served = a.served]
                /\ UNCHANGED tickets
           ELSE /\ tickets' = [tickets EXCEPT ![a.id] =
                                  SaveTicket(@, a.ticket, a.modified, a.pushed)]
                /\ agentRequest' =
                       IF a.route = "put" /\ "status" \notin a.modified
                       THEN [NoAgentRequest EXCEPT !.status = 200, !.served = a.served]
                       ELSE IF a.route = "reply" /\ a.ticket.status = "waiting_human"
                       THEN [a EXCEPT !.ticket.status = "in_progress",
                                      !.modified = {"status"}, !.pushed = <<>>]
                       ELSE [a EXCEPT !.pc = "ticket_log"]
        /\ UNCHANGED <<env, articles, suggestions, auditLog, configs, runs, nextId,
                       nextTrace, started, updates, classifyCall, confidenceCall,
                       configRequest, draftCall, requests>>

\* await AuditLog.logAction({...}) of the route resolves and the route answers.
TicketLog ==
    LET a == agentRequest
        out == logAction(auditLog,
                   [ticketId |-> a.id, traceId |-> RouteTraceId(a.served),
                    actor |-> IF a.route \in {"reply", "request"} THEN "agent" ELSE "admin",
                    action |-> CASE a.route = "put"     -> "status_changed"
                                 [] a.route = "reply"   -> "reply_added"
                                 [] a.route = "assign"  -> "assigned"
                                 [] a.route = "request" -> "assignment_requested"
                                 [] a.route = "approve" -> "assignment_approved"
                                 [] a.route = "reject"  -> "assignment_rejected",
                    meta |-> [status |-> a.ticket.status]])
    IN  /\ a.pc = "ticket_log"
        /\ auditLog' = out.log
        /\ agentRequest' = [NoAgentRequest EXCEPT
                               !.status = IF out.error = NoError THEN 200
                                          ELSE IF a.route = "request" THEN 400 ELSE 500,
                               !.served = a.served]
        /\ UNCHANGED <<env, articles, suggestions, configs, runs, nextId, nextTrace,
                       started, updates, classifyCall, confidenceCall, configRequest,
                       draftCall, tickets, requests>>

(***************************************************************************)
(* Specifications.                                                         *)
(***************************************************************************)
Environments ==
    { [STUB_MODE |-> TRUE,  model |-> FALSE],
      [STUB_MODE |-> FALSE, model |-> FALSE],
      [STUB_MODE |-> FALSE, model |-> TRUE] }

InitStores ==
    /\ articles = InitialArticles
    /\ suggestions = {}
    /\ auditLog = {}
    /\ configs = {}
    /\ runs = [p \in Slots |-> IdleRun]
    /\ nextId = 1001
    /\ nextTrace = 1
    /\ started = 0
    /\ updates = 0
    /\ requests = [t \in TicketIds |-> NoRequest]

\* The tickets handed to processTicket directly are stored tickets in status 'open'.
Init ==
    /\ env \in Environments
    /\ InitStores
    /\ tickets = [t \in TicketIds |-> NewTicket]
    /\ classifyCall = NoClassifyCall
    /\ confidenceCall = NoConfidenceCall
    /\ agentRequest = NoAgentRequest
    /\ configRequest = NoConfigRequest
    /\ draftCall = NoDraftCall

Next ==
    \/ \E p \in Slots, t \in TicketIds : Start(p, t)
    \/ \E p \in Slots, t \in TicketIds : StartStubResult(p, t)
    \/ \E p \in Slots : LogStart(p)
    \/ \E p \in Slots : Classify(p)
    \/ \E p \in Slots : Search1(p)
    \/ \E p \in Slots : Search2(p)
    \/ \E p \in Slots : LogRetrieved(p)
    \/ \E p \in Slots : Draft(p)
    \/ \E p \in Slots : Create(p)
    \/ \E p \in Slots : ConfigFind(p)
    \/ \E p \in Slots : ConfigCreate(p)
    \/ \E p \in Slots : Save(p)
    \/ \E p \in Slots : LogAutoClosed(p)
    \/ \E p \in Slots : LogDone(p)
    \/ \E p \in Slots : LogFailed(p)
    \/ \E p \in Slots : Fault(p)
    \/ \E u \in ConfigUpdates : PutConfig(u)

Spec == Init /\ [][Next]_vars

InitClassify ==
    /\ env \in {[STUB_MODE |-> TRUE, model |-> FALSE]}
    /\ InitStores
    /\ tickets = [t \in TicketIds |-> NewTicket]
    /\ classifyCall \in {[NoClassifyCall EXCEPT !.ticket = t] : t \in ClassifyInputs}
    /\ confidenceCall = NoConfidenceCall
    /\ agentRequest = NoAgentRequest
    /\ configRequest = NoConfigRequest
    /\ draftCall = NoDraftCall

NextClassify == CallStubClassify

SpecClassify == InitClassify /\ [][NextClassify]_vars

InitConfidence ==
    /\ env \in {[STUB_MODE |-> TRUE, model |-> FALSE]}
    /\ InitStores
    /\ tickets = [t \in TicketIds |-> NewTicket]
    /\ classifyCall = NoClassifyCall
    /\ confidenceCall \in ConfidenceInputs
    /\ agentRequest = NoAgentRequest
    /\ configRequest = NoConfigRequest
    /\ draftCall = NoDraftCall

NextConfidence == CallCalculateConfidence

SpecConfidence == InitConfidence /\ [][NextConfidence]_vars

InitDraft ==
    /\ env \in {[STUB_MODE |-> TRUE, model |-> FALSE]}
    /\ InitStores
    /\ tickets = [t \in TicketIds |-> NewTicket]
    /\ classifyCall = NoClassifyCall
    /\ confidenceCall = NoConfidenceCall
    /\ agentRequest = NoAgentRequest
    /\ configRequest = NoConfigRequest
    /\ draftCall \in DraftInputs

NextDraft == CallStubGenerateDraftReply

SpecDraft == InitDraft /\ [][NextDraft]_vars

\* One processTicket run in any mode, and stubGenerateDraftReply called on a ticket
\* and articles with the longest titles the schemas accept.
InitLength ==
    /\ env \in Environments
    /\ InitStores
    /\ tickets = [t \in TicketIds |-> NewTicket]
    /\ classifyCall = NoClassifyCall
    /\ confidenceCall = NoConfidenceCall
    /\ agentRequest = NoAgentRequest
    /\ configRequest = NoConfigRequest
    /\ draftCall \in {d \in DraftInputs :
                          /\ d.ticket.title = LongestTitle
                          /\ \A i \in 1..Len(d.articles) : d.articles[i].title = LongestTitle}

NextLength ==
    \/ CallStubGenerateDraftReply
    \/ \E t \in TicketIds : Start(1, t)
    \/ RunStep(1)
    \/ Fault(1)
    \/ \E u \in ConfigUpdates : PutConfig(u)

SpecLength == InitLength /\ [][NextLength]_vars

\* One processTicket run in heuristic mode, a configuration update, and the requests
\* of an agent on the suggestions.
InitFeedback ==
    /\ env \in {[STUB_MODE |-> TRUE, model |-> FALSE]}
    /\ InitStores
    /\ tickets = [t \in TicketIds |-> NewTicket]
    /\ classifyCall = NoClassifyCall
    /\ confidenceCall = NoConfidenceCall
    /\ agentRequest = NoAgentRequest
    /\ configRequest = NoConfigRequest
    /\ draftCall = NoDraftCall

NextFeedback ==
    \/ \E t \in TicketIds : Start(1, t)
    \/ RunStep(1)
    \/ \E u \in ConfigUpdates : PutConfig(u)
    \/ \E id \in {s._id : s \in suggestions} \cup {nextId}, body \in FeedbackBodies :
           SuggestionFind("feedback", id, body)
    \/ \E id \in {s._id : s \in suggestions} \cup {nextId} :
           \/ SuggestionFind("use", id, <<>>)
           \/ SuggestionFind("dismiss", id, <<>>)
    \/ SuggestionSave
    \/ SuggestionLog

SpecFeedback == InitFeedback /\ [][NextFeedback]_vars

\* Requests on the configuration, from no document on.
NextConfig ==
    \/ \E u \in ConfigBodies : ConfigRequest("put", u)
    \/ \E u \in ConfigBodies : ConfigRequest("updateConfig", u)
    \/ \E u \in FeatureBodies : ConfigRequest("features", u)
    \/ ConfigRequest("reset", <<>>)

SpecConfig == InitFeedback /\ [][NextConfig]_vars

\* stubClassifyCategory called repeatedly on one of the tickets while one processTicket
\* run and a configuration update take place.
InitRepeat ==
    /\ env \in {[STUB_MODE |-> TRUE, model |-> FALSE]}
    /\ InitStores
    /\ tickets = [t \in TicketIds |-> NewTicket]
    /\ classifyCall \in {[NoClassifyCall EXCEPT
                               !.ticket = [title |-> Tickets[t].title,
                                           description |-> Tickets[t].description]] :
                             t \in TicketIds}
    /\ confidenceCall = NoConfidenceCall
    /\ agentRequest = NoAgentRequest
    /\ configRequest = NoConfigRequest
    /\ draftCall = NoDraftCall

NextRepeat ==
    \/ CallStubClassify
    \/ RecallStubClassify
    \/ \E t \in TicketIds : Start(1, t)
    \/ RunStep(1)
    \/ Fault(1)
    \/ \E u \in ConfigUpdates : PutConfig(u)

SpecRepeat == InitRepeat /\ [][NextRepeat]_vars

\* processTicket with the external engine, over a knowledge base that is empty or
\* holds one article.  The event loop resumes every run whose awaited operation has
\* settled, hence the weak fairness of RunStep; whether an operation fails, and
\* whether the engine answers at all, is left open.
InitEngine ==
    /\ env \in {[STUB_MODE |-> FALSE, model |-> TRUE]}
    /\ articles \in {{}, {a \in InitialArticles : a._id = 101}}
    /\ suggestions = {}
    /\ auditLog = {}
    /\ configs = {}
    /\ runs = [p \in Slots |-> IdleRun]
    /\ nextId = 1001
    /\ nextTrace = 1
    /\ started = 0
    /\ updates = 0
    /\ requests = [t \in TicketIds |-> NoRequest]
    /\ tickets = [t \in TicketIds |-> NewTicket]
    /\ classifyCall = NoClassifyCall
    /\ confidenceCall = NoConfidenceCall
    /\ agentRequest = NoAgentRequest
    /\ configRequest = NoConfigRequest
    /\ draftCall = NoDraftCall

NextEngine ==
    \/ \E p \in Slots, t \in TicketIds : Start(p, t)
    \/ \E p \in Slots : RunStep(p)
    \/ \E p \in Slots : EngineSilent(p)
    \/ \E p \in Slots : Fault(p)
    \/ \E u \in ConfigUpdates : PutConfig(u)

SpecEngine == InitEngine /\ [][NextEngine]_vars /\ \A p \in Slots : WF_vars(RunStep(p))

\* processTicket and getStubResult called directly on any ticket document, the one
\* with a long text included.
NextRetrieve ==
    \/ \E p \in Slots, t \in 1..Len(Tickets) : Start(p, t)
    \/ \E p \in Slots, t \in 1..Len(Tickets) : StartStubResult(p, t)
    \/ \E p \in Slots : RunStep(p)
    \/ \E p \in Slots : Fault(p)
    \/ \E u \in ConfigUpdates : PutConfig(u)

SpecRetrieve == Init /\ [][NextRetrieve]_vars

\* Ticket creation: no ticket is stored yet, and processTicket is started by the triage
\* tasks only.  Every task starts after its handler read or created the configuration,
\* so Config.getConfig inside processTicket finds it (ConfigCreate has no part here).
InitCreate ==
    /\ env \in Environments
    /\ InitStores
    /\ tickets = [t \in TicketIds |-> NoTicket]
    /\ classifyCall = NoClassifyCall
    /\ confidenceCall = NoConfidenceCall
    /\ agentRequest = NoAgentRequest
    /\ configRequest = NoConfigRequest
    /\ draftCall = NoDraftCall

NextCreate ==
    \/ \E t \in TicketIds : PostTicket(t)
    \/ \E t \in TicketIds : HandlerConfigFind(t)
    \/ \E t \in TicketIds : HandlerConfigCreate(t)
    \/ \E t \in TicketIds : HandlerSaveSLA(t)
    \/ \E t \in TicketIds : HandlerLogCreated(t)
    \/ \E p \in Slots, t \in TicketIds : TriageStart(p, t)
    \/ \E p \in Slots : LogStart(p)
    \/ \E p \in Slots : Classify(p)
    \/ \E p \in Slots : Search1(p)
    \/ \E p \in Slots : Search2(p)
    \/ \E p \in Slots : LogRetrieved(p)
    \/ \E p \in Slots : Draft(p)
    \/ \E p \in Slots : Create(p)
    \/ \E p \in Slots : ConfigFind(p)
    \/ \E p \in Slots : Save(p)
    \/ \E p \in Slots : LogAutoClosed(p)
    \/ \E p \in Slots : LogDone(p)
    \/ \E p \in Slots : LogFailed(p)
    \/ \E p \in Slots : Fault(p)
    \/ \E t \in TicketIds : TriageResult(t)
    \/ \E t \in TicketIds : TriageAddReply(t)
    \/ \E t \in TicketIds : TriageSave(t)
    \/ \E t \in TicketIds : TriageCatch(t)
    \/ \E u \in ConfigUpdates : PutConfig(u)

SpecCreate == InitCreate /\ [][NextCreate]_vars

(***************************************************************************)
(* Properties.                                                             *)
(***************************************************************************)
Finished(r) == r.pc \in {"returned", "thrown"}

\* The suggestion a returned run hands to its caller is a stored suggestion of its ticket.
ReturnsPersisted(r) ==
    \E s \in suggestions : s._id = Result(r).suggestion._id /\ s.ticketId = r.ticket

\* C1: processTicket always completes by returning {suggestion, shouldAutoClose,
\* traceId}: no exception escapes it, whatever single step failed, and the returned
\* suggestion is a persisted suggestion of the ticket.
C1_AlwaysReturnsResult ==
    \A p \in Slots :
        runs[p].entry = "processTicket" =>
            /\ runs[p].pc # "thrown"
            /\ runs[p].pc = "returned" => ReturnsPersisted(runs[p])

\* C2: a returned shouldAutoClose is true exactly when the run did not take the
\* fallback path, the config it read has autoCloseEnabled, and its confidence is at
\* least that config's confidenceThreshold; on the fallback path it is false.
C2_AutoCloseGating ==
    \A p \in Slots :
        LET r == runs[p]
        IN  r.pc = "returned" =>
                IF r.fallback THEN Result(r).shouldAutoClose = FALSE
                ELSE Result(r).shouldAutoClose =
                         (/\ r.config.autoCloseEnabled
                          /\ r.confidence # NaN
                          /\ r.confidence >= r.config.confidenceThreshold)

\* C2 witness: one run returned true, and a getStubResult run returned false although
\* auto-close is enabled in the stored config and its confidence reaches the stored
\* threshold.
C2_Witness ==
    \E p, q \in Slots :
        /\ runs[p].pc = "returned" /\ ~runs[p].fallback
        /\ runs[p].shouldAutoClose
        /\ runs[q].pc = "returned" /\ runs[q].fallback
        /\ ~runs[q].shouldAutoClose
        /\ \E c \in configs : c.autoCloseEnabled
                               /\ runs[q].suggestion.confidence >= c.confidenceThreshold

\* C3: the suggestion store never holds two suggestions of one ticket.
C3_OneSuggestionPerTicket ==
    \A s1, s2 \in suggestions : s1.ticketId = s2.ticketId => s1 = s2

\* C3 witness: two overlapping invocations for the same ticket, neither of which saw a
\* suggestion when it started, have both finished.
C3_Witness ==
    \E p, q \in Slots :
        /\ p # q
        /\ runs[p].ticket = runs[q].ticket
        /\ runs[p].pc = "returned"
        /\ ~runs[p].hadSuggestion /\ ~runs[q].hadSuggestion
        /\ runs[q].pc = "thrown"
        /\ runs[q].error = Err("MongoServerError E11000", "AgentSuggestion.ticketId")

\* C4: processTicket for a ticket that already has a suggestion is rejected with the
\* conflict (duplicate key) condition, which is what the caller receives.
C4_ConflictSurfaced ==
    \A p \in Slots :
        LET r == runs[p]
        IN  (r.entry = "processTicket" /\ r.hadSuggestion /\ ~r.faulted /\ Finished(r)) =>
                /\ r.pc = "thrown"
                /\ r.thrown = Err("MongoServerError E11000", "AgentSuggestion.ticketId")

\* The events of a run's trace with a given action.
TraceEvents(r, action) ==
    {e \in auditLog : e.traceId = r.traceId /\ e.action = action}

\* C5: a successful processTicket run has written a category_predicted event, an
\* articles_retrieved event and, last, a reply_drafted event, plus an auto_closed event
\* when it auto-closes; every event it wrote carries its traceId, which is the traceId
\* it returns and the one stored on its suggestion.
C5_AuditCompleteness ==
    \A p \in Slots :
        LET r == runs[p]
            timeline == getTraceTimeline(auditLog, r.traceId)
        IN  (r.entry = "processTicket" /\ r.pc = "returned" /\ ~r.fallback) =>
                /\ TraceEvents(r, "category_predicted") # {}
                /\ TraceEvents(r, "articles_retrieved") # {}
                /\ timeline # <<>>
                /\ timeline[Len(timeline)].action = "reply_drafted"
                /\ Result(r).shouldAutoClose => TraceEvents(r, "auto_closed") # {}
                /\ Len(timeline) = r.written
                /\ Cardinality({e \in auditLog : e.traceId = r.traceId}) = r.written
                /\ \A e \in auditLog : e.traceId = r.traceId => e.ticketId = r.ticket
                /\ Result(r).traceId = r.traceId
                /\ \E s \in suggestions :
                       s._id = Result(r).suggestion._id /\ s.traceId = Result(r).traceId

\* C5 witness: a successful run that auto-closed has returned.
C5_Witness ==
    \E p \in Slots :
        /\ runs[p].entry = "processTicket" /\ runs[p].pc = "returned"
        /\ runs[p].shouldAutoClose
        /\ runs[p].written = 4

\* C6: once a step of processTicket has failed and the catch block has logged it, the
\* audit log holds exactly one triage_failed event of the run, with its ticketId,
\* traceId, actor 'system' and the error.
C6_TriageFailedLogged ==
    \A p \in Slots :
        LET r == runs[p]
        IN  (r.entry = "processTicket" /\ r.error # NoError /\ r.pc # "log_failed"
                 /\ r.thrown # Err("Error", "log_failed")) =>
                /\ Cardinality(TraceEvents(r, "triage_failed")) = 1
                /\ \A e \in TraceEvents(r, "triage_failed") :
                       /\ e.ticketId = r.ticket
                       /\ e.actor = "system"
                       /\ e.meta.error = r.error

EngineErrorPlaces == {"generateContent", "JSON.parse", "parsed.category"}

\* C7: with the external engine in use, a failed engine call (it rejects, or its text
\* does not parse) is recovered in the step: classifyCategory and generateDraftReply
\* then return what the heuristic implementations return for the same inputs, the
\* engine's error reaches neither processTicket's catch nor its caller, and a run in
\* which nothing else went wrong returns a persisted suggestion made of those results.
C7_EngineFailureRecovered ==
    \A p \in Slots :
        LET r == runs[p]
            ticket == Tickets[r.ticket]
        IN  /\ ("classify" \in r.engineFailed /\ r.pc \notin {"idle", "thrown"}) =>
                   r.categoryResult = stubClassifyCategory(ticket)
            /\ ("draft" \in r.engineFailed /\ r.pc \notin {"idle", "thrown"}) =>
                   r.draftResult = stubGenerateDraftReply(ticket, r.arts, r.categoryResult)
            /\ r.error.at \notin EngineErrorPlaces
            /\ r.thrown.at \notin EngineErrorPlaces
            /\ (r.engineFailed = {"classify", "draft"} /\ Finished(r) /\ r.error = NoError) =>
                   /\ r.pc = "returned"
                   /\ \E s \in suggestions :
                          /\ s._id = Result(r).suggestion._id
                          /\ s.ticketId = r.ticket
                          /\ s.predictedCategory = stubClassifyCategory(ticket).category
                          /\ s.categoryConfidence = stubClassifyCategory(ticket).confidence
                          /\ s.draftReply =
                                 stubGenerateDraftReply(ticket, r.arts,
                                                        stubClassifyCategory(ticket)).reply

\* C7 witness: a run whose engine calls both failed has returned.
C7_Witness ==
    \E p \in Slots :
        /\ ~UsesStub(env)
        /\ runs[p].engineFailed = {"classify", "draft"}
        /\ runs[p].pc = "returned"

\* C8: every result of classifyCategory has its category in {billing, tech, shipping,
\* other} and a confidence within [0,1].
C8_ClassifierResultValid ==
    \A p \in Slots :
        LET r == runs[p]
        IN  (r.pc \in AwaitSteps /\ r.categoryResult # NoCategoryResult) =>
                /\ r.categoryResult.category \in Categories
                /\ r.categoryResult.confidence # NaN
                /\ r.categoryResult.confidence >= 0
                /\ r.categoryResult.confidence <= 10000

\* The lower-cased text of a ticket contains a keyword of the category.
HasKeyword(ticket, category) ==
    \E i \in 1..Len(Keywords) :
        /\ Keywords[i].category = category
        /\ \E j \in 1..Len(Keywords[i].words) :
               Includes(ToLowerCase(TicketQuery(ticket)), Keywords[i].words[j])

\* C9: heuristic classification of a text with a keyword of exactly one category gives
\* that category with confidence 0.8; a text with no keyword gives 'other' with
\* confidence 0.5; no other confidence occurs.
C9_KeywordScoring ==
    classifyCall.done =>
        LET ticket == classifyCall.ticket
            result == classifyCall.result
            named == {c \in {"billing", "tech", "shipping"} : HasKeyword(ticket, c)}
        IN  /\ \A c \in {"billing", "tech", "shipping"} :
                   named = {c} => result.category = c /\ result.confidence = 8000
            /\ named = {} => result.category = "other" /\ result.confidence = 5000
            /\ result.confidence \in {8000, 5000}

\* C9 witness: a classified text whose only keyword is a billing keyword written in
\* capitals, and (in another call) a text without keywords, are both reachable; this
\* one is the former.
C9_Witness ==
    /\ classifyCall.done
    /\ classifyCall.ticket.title = W_Hello
    /\ classifyCall.ticket.description = D_PAYMENT \o <<" ">> \o D_question
    /\ classifyCall.result.category = "billing"

\* What the empty-articles template yields for a ticket and a category.
EmptyArticlesReply(ticket, category) ==
    Str_Thanks \o ticket.title \o Str_ThanksEnd \o Str_Understand \o CategoryText(category)
        \o Str_WillReview \o Str_Regards

C11_ConfidenceBounds ==
    (/\ confidenceCall.done
     /\ confidenceCall.categoryResult.confidence \in 0..10000)
        => confidenceCall.result \in 0..10000

\* C11 witness: the call with no article and the empty draft has returned.
C11_Witness ==
    /\ confidenceCall.done
    /\ confidenceCall.articles = <<>>
    /\ confidenceCall.draftResult.reply = <<>>
    /\ confidenceCall.categoryResult.confidence = 10000
    /\ confidenceCall.result = 4000

C13_TicketNeverMutated ==
    [][(runs' # runs) =>
          /\ tickets' = tickets
          /\ \A t \in TicketIds : requests'[t].doc = requests[t].doc]_vars

\* C13 witness: processTicket has returned the decision to close ticket t, and the
\* stored ticket is as it was created: open, no reply, no suggestion id.
C13_Witness ==
    \E t \in TicketIds : \E p \in TaskRuns(t) :
        /\ runs[p].pc = "returned"
        /\ runs[p].shouldAutoClose
        /\ requests[t].task = "pending"
        /\ tickets[t] = setSLA(NewTicket, 24)

\* C14: POST /tickets stores the ticket in status open and answers 201 before
\* processTicket is even called; the answer is the created ticket whatever becomes of
\* the triage task, and a triage task whose processTicket threw leaves the stored
\* ticket open.
C14_CreationDecoupled ==
    \A t \in TicketIds :
        /\ TaskRuns(t) # {} => requests[t].pc = "responded"
        /\ requests[t].pc = "responded" =>
               /\ requests[t].response = [status |-> 201, ticket |-> setSLA(NewTicket, 24)]
               /\ tickets[t] # NoTicket
        /\ (requests[t].task = "failed" /\ \E p \in TaskRuns(t) : runs[p].pc = "thrown")
               => tickets[t].status = "open"

\* C14 witness: ticket t was answered with 201, its triage task ended in the catch
\* after processTicket threw, and the stored ticket is open.
C14_Witness ==
    \E t \in TicketIds :
        /\ requests[t].pc = "responded"
        /\ requests[t].response.status = 201
        /\ requests[t].task = "failed"
        /\ \E p \in TaskRuns(t) : runs[p].pc = "thrown"
        /\ tickets[t].status = "open"

\* C17: once the triage task of ticket t has finished with a result of processTicket,
\* the stored ticket carries the returned suggestion's id and is resolved with the
\* draft reply appended as a non-internal reply when shouldAutoClose, triaged otherwise.
C17_DecisionApplied ==
    \A t \in TicketIds : \A p \in TaskRuns(t) :
        (requests[t].task \in {"done", "failed"} /\ runs[p].pc = "returned") =>
            LET result == Result(runs[p])
            IN  /\ tickets[t].agentSuggestionId = result.suggestion._id
                /\ IF result.shouldAutoClose
                   THEN /\ tickets[t].status = "resolved"
                        /\ \E i \in 1..Len(tickets[t].replies) :
                               /\ tickets[t].replies[i].content = result.suggestion.draftReply
                               /\ ~tickets[t].replies[i].isInternal
                   ELSE tickets[t].status = "triaged"

\* C15: every started processTicket run eventually terminates, also when the engine
\* call of classifyCategory or generateDraftReply never answers.
C15_EventuallyTerminates ==
    \A p \in Slots : (runs[p].pc # "idle") ~> Finished(runs[p])

\* The awaited audit writes inside the try block of processTicket.
AuditWriteSteps == {"log_start", "log_retrieved", "log_auto_closed", "log_done"}

\* C16: a processTicket run one of whose audit writes was rejected does not throw; it
\* returns a persisted suggestion, the only one of its ticket, with the decision its
\* config and confidence give.
C16_AuditFailureTolerated ==
    \A p \in Slots :
        LET r == runs[p]
        IN  (/\ r.entry = "processTicket"
             /\ r.faulted
             /\ r.error.name = "Error"
             /\ r.error.at \in AuditWriteSteps) =>
                /\ r.pc # "thrown"
                /\ r.pc = "returned" =>
                       /\ ReturnsPersisted(r)
                       /\ Cardinality({s \in suggestions : s.ticketId = r.ticket}) = 1
                       /\ Result(r).shouldAutoClose = ShouldAutoClose(r.config, r.confidence)

\* The order of steps and events a run in its try block shows in one state.
StepOrder(r) ==
    LET timeline == getTraceTimeline(auditLog, r.traceId)
    IN  \* articles_retrieved is written after retrieval and before drafting
        /\ TraceEvents(r, "articles_retrieved") # {} => r.searches # <<>>
        /\ r.draftResult # NoDraftResult => TraceEvents(r, "articles_retrieved") # {}
        \* the suggestion is persisted before the Config is read
        /\ r.config # NoConfig => \E s \in suggestions : s._id = r.suggestion._id
        \* auto_closed precedes reply_drafted, which is the last event
        /\ \A i \in 1..Len(timeline) :
               /\ timeline[i].action = "reply_drafted" => i = Len(timeline)
               /\ timeline[i].action = "auto_closed" => r.pc \in {"log_done", "returned"}
        /\ r.pc = "returned" => timeline[Len(timeline)].action = "reply_drafted"

\* C18: the steps and audit events of one run come in the order of the state machine;
\* in particular the step that writes the run's category_predicted event is taken after
\* the run has invoked the classifier, not while it still awaits its first audit write
\* with the classifier not called yet.
C18_StepOrder ==
    /\ [][\A p \in Slots :
              (\E e \in auditLog' \ auditLog :
                   e.traceId = runs[p].traceId /\ e.action = "category_predicted")
                  => runs[p].pc # "log_start"]_vars
    /\ [](\A p \in Slots :
              (/\ runs[p].entry = "processTicket" /\ ~runs[p].fallback
               /\ runs[p].pc \in TrySteps \cup {"returned"}) => StepOrder(runs[p]))

\* The number of the given keywords that occur in the lower-cased 'title description'.
KeywordCount(ticket, words) ==
    Cardinality({j \in 1..Len(words) :
                    Includes(ToLowerCase(ticket.title \o <<" ">> \o ticket.description),
                             words[j])})

\* C19: stubClassifyCategory returns the category with the highest keyword count, the
\* earliest of billing, tech, shipping among those that tie on a non-zero highest
\* count, and 'other' when every count is zero.
C19_HighestCountWins ==
    classifyCall.done =>
        LET b == KeywordCount(classifyCall.ticket, Keywords_billing)
            t == KeywordCount(classifyCall.ticket, Keywords_tech)
            s == KeywordCount(classifyCall.ticket, Keywords_shipping)
        IN  classifyCall.result.category =
                (CASE b = 0 /\ t = 0 /\ s = 0 -> "other"
                   [] b > 0 /\ b >= t /\ b >= s -> "billing"
                   [] t > b /\ t >= s -> "tech"
                   [] OTHER -> "shipping")

\* C19 witness: a classified text in which tech has two keywords and billing one, so
\* the later category wins on its count.
C19_Witness ==
    /\ classifyCall.done
    /\ KeywordCount(classifyCall.ticket, Keywords_billing) = 1
    /\ KeywordCount(classifyCall.ticket, Keywords_tech) = 2
    /\ KeywordCount(classifyCall.ticket, Keywords_shipping) = 0
    /\ classifyCall.result.category = "tech"

C21_AutoCloseRecorded ==
    \A p \in Slots :
        LET r == runs[p]
        IN  (r.entry = "processTicket" /\ r.pc = "returned") =>
                /\ \E s \in suggestions :
                       /\ s._id = Result(r).suggestion._id
                       /\ s.autoClosed = Result(r).shouldAutoClose
                /\ Result(r).suggestion.autoClosed = Result(r).shouldAutoClose
                /\ (TraceEvents(r, "auto_closed") # {}) = Result(r).shouldAutoClose
                /\ \A e \in TraceEvents(r, "auto_closed") :
                       /\ e.meta.confidence = r.confidence
                       /\ e.meta.threshold = r.config.confidenceThreshold
                       /\ r.confidence >= e.meta.threshold

\* C21 witness: a run has returned shouldAutoClose = true at confidence equal to the
\* threshold, its suggestion is stored as auto-closed and its auto_closed event
\* carries both numbers.
C21_Witness ==
    \E p \in Slots :
        /\ runs[p].entry = "processTicket" /\ runs[p].pc = "returned"
        /\ runs[p].shouldAutoClose
        /\ \E s \in suggestions : s._id = runs[p].suggestion._id /\ s.autoClosed
        /\ \E e \in TraceEvents(runs[p], "auto_closed") :
               e.meta.confidence = Ticket1Confidence /\ e.meta.threshold = Ticket1Confidence

\* The run is past retrieveRelevantArticles: the call has returned its articles.
Retrieved(r) ==
    r.pc \in {"draft", "engine_pending", "create", "config_find", "config_create", "save",
              "log_auto_closed", "log_done", "returned"}

\* The articles_retrieved events of the run whose meta is as the call computed it,
\* with the given text as query.
RetrievalEvents(r, query) ==
    {e \in TraceEvents(r, "articles_retrieved") :
        /\ e.meta.query = query
        /\ e.meta.category = r.categoryResult.category
        /\ e.meta.articleIds = [i \in 1..Len(r.arts) |-> r.arts[i]._id]}

\* C22 (as stated): a call of retrieveRelevantArticles that has returned has written
\* exactly one articles_retrieved event, whose meta holds the query, the category and
\* the ids of the returned articles in order.
C22_RetrievalLoggedWithQuery ==
    \A p \in Slots :
        LET r == runs[p]
        IN  Retrieved(r) =>
                /\ Cardinality(TraceEvents(r, "articles_retrieved")) = 1
                /\ RetrievalEvents(r, TicketQuery(Tickets[r.ticket])) # {}

\* C22 (corrected): a call of retrieveRelevantArticles that has returned has written
\* exactly one articles_retrieved event, also when it returns no article; its meta
\* holds the first 100 characters of the query, the category and the ids of the
\* returned articles in order.  No run ever has more than one such event.
C22_RetrievalLogged ==
    \A p \in Slots :
        LET r == runs[p]
        IN  /\ Cardinality(TraceEvents(r, "articles_retrieved")) <= 1
            /\ Retrieved(r) =>
                   /\ Cardinality(TraceEvents(r, "articles_retrieved")) = 1
                   /\ RetrievalEvents(r, Substring0(TicketQuery(Tickets[r.ticket]), 100)) # {}

\* C22 witness: one retrieval has returned two or more articles and another has
\* returned none for a query of more than 100 characters; both are logged.
C22_Witness ==
    \E p, q \in Slots :
        /\ Retrieved(runs[p]) /\ Len(runs[p].arts) >= 2
        /\ Retrieved(runs[q]) /\ Len(runs[q].arts) = 0
        /\ Len(TicketQuery(Tickets[runs[q].ticket])) > 100
        /\ \E e \in TraceEvents(runs[q], "articles_retrieved") :
               e.meta.articleIds = <<>> /\ Len(e.meta.query) = 100

\* The positions at which word occurs in text.
Occurrences(text, word) ==
    {i \in 1..(Len(text) - Len(word) + 1) : SubSeq(text, i, i + Len(word) - 1) = word}

\* The line that lists article i: its number, ". ", its title and a newline.
ArticleLine(arts, i) ==
    NumberToString(i) \o <<".", " ">> \o arts[i].title \o <<"\n">>

\* The total length of the lines of articles 1..n.
RECURSIVE LinesLength(_, _)
LinesLength(arts, n) ==
    IF n = 0 THEN 0 ELSE LinesLength(arts, n - 1) + Len(ArticleLine(arts, n))

C24_DraftReplyBounded ==
    /\ \A s \in suggestions : Len(s.draftReply) <= DraftReplyMaxLength
    /\ \A p \in Slots :
           Len(runs[p].draftResult.reply) > DraftReplyMaxLength =>
               /\ runs[p].suggestion = NoSuggestion
               /\ \A s \in suggestions : s.traceId # runs[p].traceId
    /\ (/\ draftCall.done
        /\ Len(draftCall.ticket.title) <= TitleMaxLength
        /\ Len(draftCall.articles) <= 5
        /\ \A i \in 1..Len(draftCall.articles) :
               Len(draftCall.articles[i].title) <= TitleMaxLength)
           => Len(draftCall.result.reply) <= DraftReplyMaxLength

\* C24 witness: the engine's draft of 5001 characters was rejected by the create and
\* is not stored, and the heuristic draft for the longest title and five articles
\* with the longest titles has been made.
C24_Witness ==
    /\ runs[1].pc = "log_failed"
    /\ Len(runs[1].draftResult.reply) > DraftReplyMaxLength
    /\ runs[1].error = Err("ValidationError", "AgentSuggestion.draftReply")
    /\ suggestions = {}
    /\ draftCall.done
    /\ Len(draftCall.articles) = 5
    /\ Len(draftCall.ticket.title) = TitleMaxLength
    /\ Len(draftCall.result.reply) > 1000

\* The fields of a suggestion that triage sets at its creation.
TriageFields(s) ==
    [ticketId |-> s.ticketId, traceId |-> s.traceId,
     predictedCategory |-> s.predictedCategory,
     categoryConfidence |-> s.categoryConfidence, articleIds |-> s.articleIds,
     draftReply |-> s.draftReply, confidence |-> s.confidence]

\* C25: in every step, each stored suggestion is still stored afterwards under the
\* same _id with the same ticketId, traceId, predictedCategory, categoryConfidence,
\* articleIds, draftReply and confidence; the steps of the feedback, use and dismiss
\* routes change nothing of a suggestion but agentFeedback, used and usedAt.
C25_SuggestionKept ==
    [][/\ \A s \in suggestions :
              \E n \in suggestions' : n._id = s._id /\ TriageFields(n) = TriageFields(s)
       /\ agentRequest' # agentRequest =>
              \A s \in suggestions :
                  \E n \in suggestions' :
                      n = [s EXCEPT !.agentFeedback = n.agentFeedback,
                                    !.used = n.used, !.usedAt = n.usedAt]]_vars

\* C25 witness: a suggestion has been reviewed, marked as used or dismissed, and it is
\* stored with the draft its run returned.
C25_Witness ==
    \E s \in suggestions :
        /\ s.used
        /\ s.agentFeedback.feedbackNotes = Str_Dismissed
        /\ s.usedAt # 0
        /\ runs[1].pc = "returned"
        /\ TriageFields(s) = TriageFields(runs[1].suggestion)

\* What getConfig answers: the stored document, or the default it would create.
EffectiveConfig(coll) == IF coll = {} THEN DefaultConfig ELSE CHOOSE c \in coll : TRUE

\* The update carries a threshold outside [0, 1] or a key that is not allowed.
OutOfRangeOrUnknown(u) ==
    \/ ~(DOMAIN u \subseteq AllowedUpdates)
    \/ /\ "confidenceThreshold" \in DOMAIN u
       /\ u.confidenceThreshold < 0 \/ u.confidenceThreshold > 10000

\* C26: after every step the stored configuration has a confidenceThreshold within
\* [0, 1]; and a PUT /config or a Config.updateConfig call whose update carries a
\* threshold outside [0, 1] or an unknown key is refused and leaves threshold and
\* version of the configuration as they were.
C26_ThresholdInRange ==
    [][/\ \A c \in configs' :
              c.confidenceThreshold >= 0 /\ c.confidenceThreshold <= 10000
       /\ (/\ configRequest' # configRequest
           /\ configRequest'.route \in {"put", "updateConfig"}
           /\ OutOfRangeOrUnknown(configRequest'.body))
              => /\ configRequest'.status # 200
                 /\ EffectiveConfig(configs').confidenceThreshold
                        = EffectiveConfig(configs).confidenceThreshold
                 /\ EffectiveConfig(configs').version = EffectiveConfig(configs).version]_vars

\* C26 witness: after an update to threshold 1 was accepted, the third request, an
\* updateConfig call with a threshold just above 1, was refused by the validators of
\* save(), and the stored threshold and version are those of the accepted update.
C26_Witness ==
    /\ configRequest.route = "updateConfig"
    /\ configRequest.body = [confidenceThreshold |-> 10001]
    /\ configRequest.status = 500
    /\ configRequest.served = MaxConfigRequests
    /\ \E c \in configs : c.confidenceThreshold = 10000 /\ c.version = 2

\* C27: once the triage task of ticket t has finished, a stored suggestion of the
\* ticket has autoClosed = true only if the stored ticket is resolved and its
\* agentSuggestionId is the id of that suggestion.
C27_AutoClosedMeansResolved ==
    \A t \in TicketIds :
        requests[t].task \in {"done", "failed"} =>
            \A s \in suggestions :
                (s.ticketId = t /\ s.autoClosed) =>
                    /\ tickets[t].status = "resolved"
                    /\ tickets[t].agentSuggestionId = s._id

(***************************************************************************)
(* The triage task next to the routes on its ticket.                       *)
(***************************************************************************)
\* One ticket is created in stub mode; while its handler and its triage task run, an
\* admin changes its status or assigns it and the agent replies to it.  The task starts
\* after the handler read or created the configuration (ConfigCreate has no part).
InitRace ==
    /\ env = [STUB_MODE |-> TRUE, model |-> FALSE]
    /\ InitStores
    /\ tickets = [t \in TicketIds |-> NoTicket]
    /\ classifyCall = NoClassifyCall
    /\ confidenceCall = NoConfidenceCall
    /\ agentRequest = NoAgentRequest
    /\ configRequest = NoConfigRequest
    /\ draftCall = NoDraftCall

NextRace ==
    \/ \E t \in TicketIds : (\A u \in TicketIds : tickets[u] = NoTicket) /\ PostTicket(t)
    \/ \E t \in TicketIds : HandlerConfigFind(t)
    \/ \E t \in TicketIds : HandlerConfigCreate(t)
    \/ \E t \in TicketIds : HandlerSaveSLA(t)
    \/ \E t \in TicketIds : HandlerLogCreated(t)
    \/ \E t \in TicketIds : TriageStart(1, t)
    \/ LogStart(1)
    \/ Classify(1)
    \/ Search1(1)
    \/ Search2(1)
    \/ LogRetrieved(1)
    \/ Draft(1)
    \/ Create(1)
    \/ ConfigFind(1)
    \/ Save(1)
    \/ LogAutoClosed(1)
    \/ LogDone(1)
    \/ LogFailed(1)
    \/ Fault(1)
    \/ \E t \in TicketIds : TriageResult(t)
    \/ \E t \in TicketIds : TriageAddReply(t)
    \/ \E t \in TicketIds : TriageSave(t)
    \/ \E t \in TicketIds : TriageCatch(t)
    \/ \E u \in ConfigUpdates : PutConfig(u)
    \/ \E t \in TicketIds, body \in StatusBodies : TicketFind("put", t, body)
    \/ \E t \in TicketIds, body \in AssignBodies : TicketFind("assign", t, body)
    \/ \E t \in TicketIds, body \in ReplyBodies : TicketFind("reply", t, body)
    \/ TicketSave
    \/ TicketLog

SpecRace == InitRace /\ [][NextRace]_vars

\* The status, the assignee and the replies somebody else has stored.
ChangedByOthers(t) == tickets[t].status # "open" \/ tickets[t].assignee # 0
                          \/ tickets[t].replies # <<>>

\* The step in which a save of the triage task of ticket t writes.
TaskWrites(t) ==
    /\ requests[t].task \in {"add_reply", "save"}
    /\ requests'[t].task # requests[t].task
    /\ tickets'[t] # tickets[t]

\* C28: the triage task's save of status 'triaged'/'resolved' from its in-memory copy
\* does not overwrite or lose a change an agent or admin has stored since the ticket
\* was created: a status set through PUT /:id, the assignee and the 'in_progress' of a
\* direct assignment, and the replies added are the same after the save.
C28_ConcurrentChangeKept ==
    [][\A t \in TicketIds :
          (TaskWrites(t) /\ ChangedByOthers(t)) =>
              /\ tickets[t].status # "open" => tickets'[t].status = tickets[t].status
              /\ tickets'[t].assignee = tickets[t].assignee
              /\ SubSeq(tickets'[t].replies, 1, Len(tickets[t].replies)) = tickets[t].replies
      ]_vars

\* The parts of C28 the code keeps: the assignee and the replies stored by others.
C28_AssigneeAndRepliesKept ==
    [][\A t \in TicketIds :
          TaskWrites(t) =>
              /\ tickets'[t].assignee = tickets[t].assignee
              /\ SubSeq(tickets'[t].replies, 1, Len(tickets[t].replies)) = tickets[t].replies
      ]_vars

\* A triage task has ended on a ticket an admin assigned while it ran: the assignee
\* is stored and the status of the assignment is gone.
C28_Lost ==
    /\ requests[1].task = "done"
    /\ tickets[1].assignee # 0
    /\ tickets[1].status = "triaged"
    /\ agentRequest.pc = "idle"

\* The rejection of Config.create({}) when the document 'config' exists already.
ConfigDuplicateKey == Err("MongoServerError E11000", "Config._id")

\* C29: Config.getConfig never fails because of concurrency: when no configuration
\* exists and two callers call it at the same time, one 'config' document is created
\* and every caller receives it, so no run of the pipeline is rejected by the
\* duplicate key of the configuration document.
C29_GetConfigNeverFails ==
    /\ Cardinality(configs) <= 1
    /\ \A p \in Slots : /\ runs[p].error # ConfigDuplicateKey
                        /\ runs[p].thrown # ConfigDuplicateKey

\* The part of C29 the unique _id ensures: at most one configuration document.
C29_SingleDocument == Cardinality(configs) <= 1

\* Two runs have called getConfig before a configuration existed; one has created it,
\* and the other, in which no step was made to fail, is in the catch of processTicket
\* with the duplicate key error.
C29_SecondCallerRejected ==
    /\ configs = {DefaultConfig}
    /\ \E p \in Slots : /\ runs[p].pc = "log_failed"
                        /\ runs[p].error = ConfigDuplicateKey
                        /\ ~runs[p].faulted

(***************************************************************************)
(* The assignment workflow on stored tickets.                              *)
(***************************************************************************)
NextAssign ==
    \/ \E t \in TicketIds : TicketFind("request", t, [assigneeId |-> 0])
    \/ \E t \in TicketIds, body \in AssignBodies : TicketFind("assign", t, body)
    \/ \E t \in TicketIds : TicketFind("approve", t, [assigneeId |-> 0])
    \/ \E t \in TicketIds : TicketFind("reject", t, [assigneeId |-> 0])
    \/ TicketSave
    \/ TicketLog

SpecAssign == InitFeedback /\ [][NextAssign]_vars

\* No ticket has both an assignee and a pending assignment request.
NoAssigneeWhilePending ==
    \A t \in TicketIds :
        ~(tickets[t].assignee # 0 /\ tickets[t].pendingAssignment.status = "pending")

\* A save of the approve route assigns the requesting agent to a ticket whose request
\* was pending, and a save of the reject route leaves the assignee as it was.
ApprovalAndRejection ==
    \A t \in TicketIds :
        tickets'[t] # tickets[t] =>
            /\ agentRequest.route = "approve" =>
                   /\ tickets[t].pendingAssignment.status = "pending"
                   /\ tickets'[t].pendingAssignment.status = "approved"
                   /\ tickets'[t].assignee = tickets[t].pendingAssignment.requestedBy
            /\ agentRequest.route = "reject" =>
                   /\ tickets[t].pendingAssignment.status = "pending"
                   /\ tickets'[t].assignee = tickets[t].assignee

\* C30: after any sequence of assignment requests, approvals, rejections and direct
\* assignments no ticket has both an assignee and a pending assignment request,
\* approval is possible only from 'pending' and sets the assignee to the requesting
\* agent, and rejection leaves the assignee unchanged.
C30_AssignmentWorkflow == []NoAssigneeWhilePending /\ [][ApprovalAndRejection]_vars

\* The part of C30 about approval and rejection.
C30_ApprovalAndRejection == [][ApprovalAndRejection]_vars

\* A ticket the agent asked for and the admin then assigned directly to another agent:
\* the request is still pending.
C30_AssignedWhilePending ==
    \E t \in TicketIds :
        /\ tickets[t].assignee = AgentId + 1
        /\ tickets[t].pendingAssignment = [requestedBy |-> AgentId, status |-> "pending"]
        /\ agentRequest.pc = "idle"
====
